---- MODULE Spec2Model ----
(***************************************************************************)
(* Model of the wire-format writer (src/src/writer.js) and of the field     *)
(* encoder that drives it (src/unnamed/part_000, field.js).                 *)
(*                                                                          *)
(* Conventions                                                              *)
(*  - A JavaScript reference that may be null is an option: None is null,   *)
(*    Some(x) is the object x.                                              *)
(*  - A byte buffer (Uint8Array) is a sequence of numbers 0..255; a fresh   *)
(*    buffer is zero filled, a store past its end is dropped.               *)
(*  - An unsigned 32 bit number is a pair <<hi, lo>> of 16 bit halves, so   *)
(*    that the full range 0 .. 2^32-1 is covered by the checker's integers. *)
(*  - A machine record holds the writer's fields (bufs, buf, pos, len,      *)
(*    stack), the module level state of writer.js (emptyArray,              *)
(*    BUFFER_SIZE), the value returned by the last finish() (ret) and       *)
(*    whether the running call has thrown (err).                            *)
(***************************************************************************)
EXTENDS Integers, Sequences, FiniteSets, TLC

\* ------------------------------------------------------------------ bounds
\* Operations per run of the writer specifications.
MaxOps == 4

\* Padding writes in front of the varint under test.
MaxPad == 12

\* Calls per run of the field encoder specification.
MaxEncodeOps == 2

\* The longest string written, in UTF-16 code units.
MaxStrLen == 3

\* Calls per run on the reflection tree.
MaxTreeOps == 4

\* Writer.BUFFER_SIZE as shipped.
DefaultBufferSize == 256

\* Chunk sizes the runs are checked under (Writer.BUFFER_SIZE is a public,
\* assignable property): the smallest legal one, one that lets the 32 bit fast
\* path run and seal in the middle of a write, one that lets the 64 bit fast
\* path run.
ChunkSizes == {1, 6, 11}


\* ------------------------------------------------------------ small helpers
None == <<>>
Some(x) == <<x>>
Max(a, b) == IF a >= b THEN a ELSE b
Min(a, b) == IF a <= b THEN a ELSE b

\* 32 bit unsigned numbers as 16 bit halves.
Hi(v) == v[1]
Lo(v) == v[2]
U32(n) == <<n \div 65536, n % 65536>>
\* Mutant of Gt127: the loop test off by one (value > 128).
Gt127_off_by_one(v) == Hi(v) > 0 \/ Lo(v) > 128

\* value > 127
Gt127(v) == Hi(v) > 0 \/ Lo(v) > 127
\* hi > 0
Gt0(v) == Hi(v) > 0 \/ Lo(v) > 0
\* value & 127
Low7(v) == Lo(v) % 128
\* value >>> 7
Shr7(v) == <<Hi(v) \div 128, (Lo(v) \div 128) + (Hi(v) % 128) * 512>>
\* (lo >>> 7 | hi << 25) >>> 0
Shr7In(lo, hi) == <<(Hi(lo) \div 128) + (Lo(hi) % 128) * 512,
                    (Lo(lo) \div 128) + (Hi(lo) % 128) * 512>>

\* ------------------------------------------------------------ the writer
\* new Writer(): buf null, pos 0, len 0, bufs [], _stack []; the module level
\* emptyArray is null until Writer.setup() has run.
NewMachine(size) ==
    [bufs |-> <<>>, buf |-> None, pos |-> 0, len |-> 0, stack |-> <<>>,
     emptyArray |-> None, BUFFER_SIZE |-> size, ret |-> None, err |-> FALSE]

\* Writer.alloc after setup: new ArrayImpl(size), zero filled.
RECURSIVE alloc(_)
alloc(size) ==
    IF size <= 0 THEN <<>>
    ELSE IF size % 2 = 1 THEN Append(alloc(size - 1), 0)
    ELSE LET half == alloc(size \div 2) IN half \o half

\* Writer.setup(): emptyArray = Writer.alloc(0).
setup(w) == [w EXCEPT !.emptyArray = Some(alloc(0))]

\* this._slice.call(buf, 0, end)
slice(data, end) == SubSeq(data, 1, Min(end, Len(data)))

\* this._set.call(target, source, offset): throws RangeError on overrun.
SetFits(target, source, offset) == offset + Len(source) <= Len(target)
set(target, source, offset) ==
    SubSeq(target, 1, offset) \o source
        \o SubSeq(target, offset + Len(source) + 1, Len(target))

\* this.buf[this.pos++] = b
put(w, b) ==
    IF w.err THEN w
    ELSE IF w.buf = None THEN [w EXCEPT !.err = TRUE]
    ELSE [w EXCEPT
            !.buf = Some(IF w.pos + 1 <= Len(w.buf[1]) /\ w.pos >= 0
                         THEN [w.buf[1] EXCEPT ![w.pos + 1] = b % 256]
                         ELSE w.buf[1]),
            !.pos = w.pos + 1]

\* Mutant of expand: seals the whole chunk, not its written part.
expand_whole_chunk(w, writeLength) ==
    IF w.err THEN w
    ELSE LET sealed == IF w.pos # 0 THEN Append(w.bufs, w.buf[1]) ELSE w.bufs
             n == Max(writeLength, w.BUFFER_SIZE)
         IN  [setup(w) EXCEPT !.bufs = sealed, !.buf = Some(alloc(n)),
                              !.len = n, !.pos = 0]

expand(w, writeLength) ==
    IF w.err THEN w
    ELSE LET sealed == IF w.pos # 0
                       THEN Append(w.bufs, slice(w.buf[1], w.pos))
                       ELSE w.bufs
             n == Max(writeLength, w.BUFFER_SIZE)
         IN  [setup(w) EXCEPT !.bufs = sealed, !.buf = Some(alloc(n)),
                              !.len = n, !.pos = 0]

write_tag(w, id, wireType) ==
    put(IF w.pos + 1 > w.len THEN expand(w, 1) ELSE w,
        (id * 8 + (wireType % 8)) % 256)

\* The loop of the fast route: no capacity test.
RECURSIVE uint32_fast(_, _)
uint32_fast(w, value) ==
    IF Gt127(value)
    THEN uint32_fast(put(w, Low7(value) + 128), Shr7(value))
    ELSE put(w, Lo(value))

\* The loop of the checked route, then the test in front of the last byte.
RECURSIVE uint32_slow(_, _)
uint32_slow(w, value) ==
    LET w1 == IF w.pos >= w.len THEN expand(w, 1) ELSE w
    IN  IF Gt127(value)
        THEN uint32_slow(put(w1, Low7(value) + 128), Shr7(value))
        ELSE put(w1, Lo(value))

\* Mutant of uint32_fast_route: room for four bytes taken as enough.
uint32_fast_route_short(w) == w.pos + 4 <= w.len

uint32_fast_route(w) == w.pos + 4 < w.len

write_uint32(w, value) ==
    IF uint32_fast_route(w) THEN uint32_fast(w, value)
    ELSE uint32_slow(w, value)

RECURSIVE long_fast(_, _, _)
long_fast(w, lo, hi) ==
    IF Gt0(hi) \/ Gt127(lo)
    THEN long_fast(put(w, Low7(lo) + 128), Shr7In(lo, hi), Shr7(hi))
    ELSE put(w, Lo(lo))

RECURSIVE long_slow(_, _, _)
long_slow(w, lo, hi) ==
    LET w1 == IF w.pos >= w.len THEN expand(w, 1) ELSE w
    IN  IF Gt0(hi) \/ Gt127(lo)
        THEN long_slow(put(w1, Low7(lo) + 128), Shr7In(lo, hi), Shr7(hi))
        ELSE put(w1, Lo(lo))

long_fast_route(w) == w.pos + 9 < w.len

writeLongVarint(w, lo, hi) ==
    IF long_fast_route(w) THEN long_fast(w, lo, hi)
    ELSE long_slow(w, lo, hi)

\* uint64 of a Long-like value {low, high}: value.low >>> 0, value.high >>> 0.
write_uint64(w, value) == writeLongVarint(w, value[1], value[2])

write_bool(w, value) ==
    put(IF w.pos >= w.len THEN expand(w, 1) ELSE w, IF value THEN 1 ELSE 0)

write_fixed32(w, value) ==
    LET w0 == IF w.pos + 4 > w.len THEN expand(w, 4) ELSE w
        w1 == put(w0, Lo(value) % 256)
        w2 == put(w1, Lo(value) \div 256)
        w3 == put(w2, Hi(value) % 256)
    IN  put(w3, Hi(value) \div 256)

\* Mutant of write_bytes: the chunk is grown by one cell, not by the payload.
write_bytes_expand_one(w, value) ==
    LET n == Len(value)
    IN  IF n # 0
        THEN LET w1 == write_uint32(w, U32(n))
                 w2 == IF w1.pos + n > w1.len THEN expand(w1, 1) ELSE w1
             IN  IF w2.err THEN w2
                 ELSE IF ~SetFits(w2.buf[1], value, w2.pos)
                      THEN [w2 EXCEPT !.err = TRUE]
                 ELSE [w2 EXCEPT !.buf = Some(set(w2.buf[1], value, w2.pos)),
                                 !.pos = w2.pos + n]
        ELSE put(IF w.pos >= w.len THEN expand(w, 1) ELSE w, 0)

write_bytes(w, value) ==
    LET n == Len(value)
    IN  IF n # 0
        THEN LET w1 == write_uint32(w, U32(n))
                 w2 == IF w1.pos + n > w1.len THEN expand(w1, n) ELSE w1
             IN  IF w2.err THEN w2
                 ELSE IF ~SetFits(w2.buf[1], value, w2.pos)
                      THEN [w2 EXCEPT !.err = TRUE]
                 ELSE [w2 EXCEPT !.buf = Some(set(w2.buf[1], value, w2.pos)),
                                 !.pos = w2.pos + n]
        ELSE put(IF w.pos >= w.len THEN expand(w, 1) ELSE w, 0)

\* function State(writer)
State(w) == [bufs |-> w.bufs, buf |-> w.buf, pos |-> w.pos, len |-> w.len]

\* Mutant of apply: pos is not restored.
apply_without_pos(s, w) ==
    [w EXCEPT !.bufs = s.bufs, !.buf = s.buf, !.len = s.len]

\* State.prototype.apply
apply(s, w) == [w EXCEPT !.bufs = s.bufs, !.buf = s.buf, !.pos = s.pos,
                         !.len = s.len]

\* Mutant of fork: the sealed chunks are kept for the new stream.
fork_keeping_bufs(w) ==
    [w EXCEPT !.stack = Append(w.stack, State(w)),
              !.buf = None, !.pos = 0, !.len = 0]

fork(w) ==
    [w EXCEPT !.stack = Append(w.stack, State(w)),
              !.bufs = <<>>, !.buf = None, !.pos = 0, !.len = 0]

\* Mutant of reset: the oldest state is taken, not the most recent.
reset_oldest(w) ==
    IF Len(w.stack) # 0
    THEN apply(w.stack[1], [w EXCEPT !.stack = Tail(w.stack)])
    ELSE [w EXCEPT !.bufs = <<>>, !.buf = None, !.pos = 0, !.len = 0]

reset(w) ==
    IF Len(w.stack) # 0
    THEN apply(w.stack[Len(w.stack)],
               [w EXCEPT !.stack = SubSeq(w.stack, 1, Len(w.stack) - 1)])
    ELSE [w EXCEPT !.bufs = <<>>, !.buf = None, !.pos = 0, !.len = 0]

\* The loop of finish that copies the sealed chunks into concat; yields the
\* filled array and the offset behind the last chunk.
RECURSIVE finish_copy(_, _, _, _)
finish_copy(concat, chunks, i, at) ==
    IF i > Len(chunks) THEN [concat |-> concat, pos |-> at]
    ELSE finish_copy(set(concat, chunks[i], at), chunks, i + 1,
                     at + Len(chunks[i]))

RECURSIVE finish_length(_, _)
finish_length(chunks, i) ==
    IF i > Len(chunks) THEN 0
    ELSE Len(chunks[i]) + finish_length(chunks, i + 1)

finish(w) ==
    LET w1 == reset(w)
    IN  IF w.buf # None
        THEN LET tail == IF w.pos < w.len THEN slice(w.buf[1], w.pos)
                         ELSE w.buf[1]
             IN  IF Len(w.bufs) = 0 THEN [w1 EXCEPT !.ret = Some(tail)]
                 ELSE LET total == w.pos + finish_length(w.bufs, 1)
                          c == finish_copy(alloc(total), w.bufs, 1, 0)
                      IN  [w1 EXCEPT !.ret = Some(set(c.concat, tail, c.pos))]
        ELSE [w1 EXCEPT !.ret = w.emptyArray]

\* ------------------------------------------------------------ the state
VARIABLES
    bufs,        \* Writer#bufs: the sealed chunks
    buf,         \* Writer#buf: the current chunk, or null
    pos,         \* Writer#pos
    len,         \* Writer#len
    stack,       \* Writer#_stack: the forked states
    emptyArray,  \* writer.js: var emptyArray
    BUFFER_SIZE, \* Writer.BUFFER_SIZE
    codegen,     \* codegen.supported: whether encoders can be generated
    ret,         \* what the last call returned, when it was finish()
    err,         \* whether the last call threw
    log,         \* history: the calls made so far, in order
    snaps,       \* history: (bufs, buf, pos, len) as they were at each fork()
    prev,        \* history: the machine as it was before the last call
    objects,     \* the reflection objects constructed so far, by identity
    treeCall,    \* history: the last call made on a reflection object
    objectsBefore \* history: the reflection objects before that call

writerVars == <<bufs, buf, pos, len, stack, emptyArray, BUFFER_SIZE, codegen,
                ret, err, log, snaps, prev>>

treeVars == <<objects, treeCall, objectsBefore>>

vars == <<writerVars, treeVars>>

Machine ==
    [bufs |-> bufs, buf |-> buf, pos |-> pos, len |-> len, stack |-> stack,
     emptyArray |-> emptyArray, BUFFER_SIZE |-> BUFFER_SIZE, ret |-> ret,
     err |-> err]

\* The machine a call starts from: nothing returned, nothing thrown yet.
Before == [Machine EXCEPT !.ret = None, !.err = FALSE]

W4 == [bufs |-> bufs, buf |-> buf, pos |-> pos, len |-> len]

Load(w) ==
    /\ bufs' = w.bufs
    /\ buf' = w.buf
    /\ pos' = w.pos
    /\ len' = w.len
    /\ stack' = w.stack
    /\ emptyArray' = w.emptyArray
    /\ BUFFER_SIZE' = w.BUFFER_SIZE
    /\ ret' = w.ret
    /\ err' = w.err

Call(kind, arg, w) ==
    /\ Load(w)
    /\ log' = Append(log, [kind |-> kind, arg |-> arg])
    /\ snaps' = IF kind = "fork" THEN Append(snaps, W4) ELSE snaps
    /\ prev' = Before
    /\ codegen' = codegen
    /\ UNCHANGED treeVars

\* The state after require("./writer") and new Writer().
InitWith(sizes, generators) ==
    /\ bufs = <<>>
    /\ buf = None
    /\ pos = 0
    /\ len = 0
    /\ stack = <<>>
    /\ emptyArray = None
    /\ BUFFER_SIZE \in sizes
    /\ codegen \in generators
    /\ ret = None
    /\ err = FALSE
    /\ log = <<>>
    /\ snaps = <<>>
    /\ prev = NewMachine(0)
    /\ objects = <<>>
    /\ treeCall = None
    /\ objectsBefore = <<>>

\* ------------------------------------------------- the writer's operations
\* Arguments the runs draw from.
MaxU32 == <<65535, 65535>>
TagArgs == {<<16, 2>>}
Uint32Args == {U32(0), U32(150), MaxU32}
Uint64Args == {<<U32(1), U32(0)>>, <<MaxU32, MaxU32>>}
Fixed32Args == {U32(1)}
BytesArgs == {<<>>, <<170, 187>>}

\* One write call, by name.
write(w, kind, arg) ==
    CASE kind = "tag" -> write_tag(w, arg[1], arg[2])
      [] kind = "uint32" -> write_uint32(w, arg)
      [] kind = "int32" -> write_uint32(w, arg)
      [] kind = "uint64" -> write_uint64(w, arg)
      [] kind = "bool" -> write_bool(w, arg)
      [] kind = "fixed32" -> write_fixed32(w, arg)
      [] kind = "bytes" -> write_bytes(w, arg)

CanCall == Len(log) < MaxOps

Tag == \E a \in TagArgs :
    CanCall /\ Call("tag", a, write(Before, "tag", a))

Uint32 == \E v \in Uint32Args :
    CanCall /\ Call("uint32", v, write(Before, "uint32", v))

Uint64 == \E v \in Uint64Args :
    CanCall /\ Call("uint64", v, write(Before, "uint64", v))

Bool == \E b \in {TRUE} :
    CanCall /\ Call("bool", b, write(Before, "bool", b))

Fixed32 == \E v \in Fixed32Args :
    CanCall /\ Call("fixed32", v, write(Before, "fixed32", v))

Bytes == \E v \in BytesArgs :
    CanCall /\ Call("bytes", v, write(Before, "bytes", v))

Fork == CanCall /\ Call("fork", None, fork(Before))

Reset == CanCall /\ Call("reset", None, reset(Before))

Finish == CanCall /\ Call("finish", None, finish(Before))

Init == InitWith(ChunkSizes, {FALSE})

Next ==
    \/ Tag
    \/ Uint32
    \/ Uint64
    \/ Bool
    \/ Fixed32
    \/ Bytes
    \/ Fork
    \/ Reset
    \/ Finish

Spec == Init /\ [][Next]_vars

\* ------------------------------------------------ reading the history
IsControl(e) == e.kind \in {"fork", "reset", "finish"}

Last == log[Len(log)]
LastIs(kind) == Len(log) > 0 /\ Last.kind = kind

\* The number of fork() calls among the first n calls.
RECURSIVE ForkCount(_, _)
ForkCount(lg, n) ==
    IF n = 0 THEN 0
    ELSE ForkCount(lg, n - 1) + (IF lg[n].kind = "fork" THEN 1 ELSE 0)

\* The forks that are open after the first n calls, oldest first, each named
\* by its ordinal among the forks: a fork opens, a reset or a finish closes
\* the most recent open one.
RECURSIVE OpenForks(_, _)
OpenForks(lg, n) ==
    IF n = 0 THEN <<>>
    ELSE LET o == OpenForks(lg, n - 1)
         IN  CASE lg[n].kind = "fork" -> Append(o, ForkCount(lg, n))
               [] lg[n].kind \in {"reset", "finish"} ->
                    IF Len(o) > 0 THEN SubSeq(o, 1, Len(o) - 1) ELSE o
               [] OTHER -> o

\* The index of the last fork, reset or finish among the first n calls (0 when
\* there is none): the calls after it are the writes of the current stream.
RECURSIVE StreamStart(_, _)
StreamStart(lg, n) ==
    IF n = 0 THEN 0
    ELSE IF IsControl(lg[n]) THEN n ELSE StreamStart(lg, n - 1)

\* The index in the history of the fork with ordinal k.
RECURSIVE ForkIndex(_, _, _)
ForkIndex(lg, k, i) ==
    IF lg[i].kind = "fork" /\ ForkCount(lg, i) = k THEN i
    ELSE ForkIndex(lg, k, i + 1)

\* The write calls issued on the current stream after the first n calls: those
\* since construction or the last reset at depth 0, or since the fork that
\* opened the stream, without the streams opened and closed in between.
RECURSIVE StreamOps(_, _)
StreamOps(lg, n) ==
    IF n = 0 THEN <<>>
    ELSE CASE lg[n].kind = "fork" -> <<>>
           [] lg[n].kind \in {"reset", "finish"} ->
                LET o == OpenForks(lg, n - 1)
                IN  IF Len(o) = 0 THEN <<>>
                    ELSE StreamOps(lg, ForkIndex(lg, o[Len(o)], 1) - 1)
           [] OTHER -> Append(StreamOps(lg, n - 1), lg[n])

\* The bytes a machine holds in its current stream: the sealed chunks in
\* order, then buf[0..pos).
RECURSIVE Flatten(_)
Flatten(chunks) ==
    IF Len(chunks) = 0 THEN <<>>
    ELSE chunks[1] \o Flatten(Tail(chunks))

Stream(w) ==
    Flatten(w.bufs) \o (IF w.buf = None THEN <<>> ELSE slice(w.buf[1], w.pos))

\* The bytes one write call produces on its own: on a new writer with the
\* shipped chunk size, finished at once.
OpBytes(e) ==
    finish(write(NewMachine(DefaultBufferSize), e.kind, e.arg)).ret[1]

RECURSIVE ConcatOps(_)
ConcatOps(ops) ==
    IF Len(ops) = 0 THEN <<>>
    ELSE OpBytes(ops[1]) \o ConcatOps(Tail(ops))

RECURSIVE SumLen(_)
SumLen(ops) ==
    IF Len(ops) = 0 THEN 0
    ELSE Len(OpBytes(ops[1])) + SumLen(Tail(ops))

\* The same write calls on a writer constructed now.
RECURSIVE Replay(_, _)
Replay(w, ops) ==
    IF Len(ops) = 0 THEN w
    ELSE Replay(write(w, ops[1].kind, ops[1].arg), Tail(ops))

Fresh == [NewMachine(BUFFER_SIZE) EXCEPT !.emptyArray = prev.emptyArray]

Cleared == bufs = <<>> /\ buf = None /\ pos = 0 /\ len = 0

\* ------------------------------------------------------------ the claims
\* The calls of the stream that the last call, a finish, ended.
FinishedOps == StreamOps(log, Len(log) - 1)
\* The forks open when the last call was made.
OpenBefore == OpenForks(log, Len(log) - 1)

\* C1: whatever write calls (one or more) were issued on the current stream,
\* finish() returns the concatenation of the bytes of each call in call order,
\* for every chunk size and wherever expand() sealed a chunk, and the length
\* of the result is the sum of the lengths written by each call.
FinishConcatenates ==
    (LastIs("finish") /\ Len(FinishedOps) > 0) =>
        /\ ret = Some(ConcatOps(FinishedOps))
        /\ Len(ret[1]) = SumLen(FinishedOps)

\* C1 witness: a finish of two or more writes that found sealed chunks, one
\* of them sealed before it was full.
FinishConcatenatesWitness ==
    /\ LastIs("finish")
    /\ Len(FinishedOps) >= 2
    /\ Len(prev.bufs) >= 1
    /\ \E i \in 1..Len(prev.bufs) : Len(prev.bufs[i]) < prev.BUFFER_SIZE
    /\ ret = Some(ConcatOps(FinishedOps))

\* Whether the history ends with fork(); writes; the given tail of calls.
EndsForkWrites(tail) ==
    /\ Len(log) > Len(tail)
    /\ SubSeq(log, Len(log) - Len(tail) + 1, Len(log)) = tail
    /\ StreamStart(log, Len(log) - Len(tail)) > 0
    /\ log[StreamStart(log, Len(log) - Len(tail))].kind = "fork"

\* The state S just before that fork.
StateAtFork(tail) ==
    snaps[ForkCount(log, StreamStart(log, Len(log) - Len(tail)))]

CallFinish == [kind |-> "finish", arg |-> None]
CallReset == [kind |-> "reset", arg |-> None]

\* C2 as stated: after fork(); writes; b = finish(); reset() the writer's
\* (bufs, buf, pos, len) are those of the state S just before the fork.
ForkFinishResetRestores ==
    EndsForkWrites(<<CallFinish, CallReset>>) =>
        W4 = StateAtFork(<<CallFinish, CallReset>>)

\* C2 amended: after fork(); writes; b = finish() the writer's
\* (bufs, buf, pos, len) are those of the state S just before the fork.
ForkFinishRestores ==
    EndsForkWrites(<<CallFinish>>) => W4 = StateAtFork(<<CallFinish>>)

\* C2 witness: a finish that closed a fork with a write in it, taken in a
\* state with bytes in the current chunk, and restored it.
ForkFinishRestoresWitness ==
    /\ EndsForkWrites(<<CallFinish>>)
    /\ Len(FinishedOps) > 0
    /\ StateAtFork(<<CallFinish>>).pos > 0
    /\ W4 = StateAtFork(<<CallFinish>>)

\* C3: finish() performs exactly one reset: with forks open it closes exactly
\* the most recent one and restores the (bufs, buf, pos, len) captured by it;
\* with none open it leaves the writer cleared; and when no byte was written
\* in the stream it returns a sequence of length 0.
FinishResetsOnce ==
    LastIs("finish") =>
        /\ IF Len(OpenBefore) > 0
           THEN /\ Len(stack) = Len(OpenBefore) - 1
                /\ W4 = snaps[OpenBefore[Len(OpenBefore)]]
           ELSE Len(stack) = 0 /\ Cleared
        /\ Len(FinishedOps) = 0 => (ret # None /\ Len(ret[1]) = 0)

\* C4: fork and reset form a stack: the depth of the stack is the number of
\* forks minus the number of pops, a reset() restores what the most recent
\* open fork captured, and a reset() with no fork open clears the writer.
ForkResetLifo ==
    /\ Len(stack) = Len(OpenForks(log, Len(log)))
    /\ LastIs("reset") =>
        IF Len(OpenBefore) > 0
        THEN W4 = snaps[OpenBefore[Len(OpenBefore)]]
        ELSE Cleared

\* C4 witness: a reset with two forks open that had captured different
\* states, which restored the later one.
ForkResetLifoWitness ==
    /\ LastIs("reset")
    /\ Len(OpenBefore) = 2
    /\ snaps[OpenBefore[1]] # snaps[OpenBefore[2]]
    /\ W4 = snaps[OpenBefore[2]]
    /\ Len(stack) = 1

\* C5: the bytes finish() returns inside a fork are those a writer constructed
\* now returns from finish() after the same writes, whatever was written
\* before the fork.
ForkedBytesIndependent ==
    (LastIs("finish") /\ Len(OpenBefore) > 0) =>
        ret = finish(Replay(Fresh, FinishedOps)).ret

\* C5 witness: a finish inside a fork, with writes in the fork and bytes
\* already written before it.
ForkedBytesIndependentWitness ==
    /\ LastIs("finish")
    /\ Len(OpenBefore) > 0
    /\ Len(FinishedOps) > 0
    /\ snaps[OpenBefore[Len(OpenBefore)]].pos > 0
    /\ ret = finish(Replay(Fresh, FinishedOps)).ret

\* C6: between calls 0 <= pos <= len, and buf is null exactly when len is 0.
PosWithinLen ==
    /\ 0 <= pos
    /\ pos <= len
    /\ (buf = None) <=> (len = 0)

\* C6 witness: a uint32 that took the fast route and filled the chunk to its
\* last byte.
PosWithinLenWitness ==
    /\ LastIs("uint32")
    /\ uint32_fast_route(prev)
    /\ pos = prev.pos + 5
    /\ pos = len

\* ------------------------------------------------ varints, by definition
Pow2(k) == 2 ^ k

\* Bit k (0 is the least significant) of a 32 bit number.
Bit(v, k) ==
    IF k < 16 THEN (Lo(v) \div Pow2(k)) % 2
    ELSE IF k < 32 THEN (Hi(v) \div Pow2(k - 16)) % 2
    ELSE 0

\* The i-th 7 bit group of v, the first being the least significant.
Group(v, i) ==
    LET b(j) == Bit(v, 7 * (i - 1) + j) * Pow2(j)
    IN  b(0) + b(1) + b(2) + b(3) + b(4) + b(5) + b(6)

\* The number of 7 bit groups up to the most significant one that is not 0.
Groups(v) ==
    IF Group(v, 5) # 0 THEN 5
    ELSE IF Group(v, 4) # 0 THEN 4
    ELSE IF Group(v, 3) # 0 THEN 3
    ELSE IF Group(v, 2) # 0 THEN 2
    ELSE 1

\* The varint of v: its groups, least significant first, 0x80 on all but the
\* last.
RECURSIVE RefVarintFrom(_, _)
RefVarintFrom(v, i) ==
    IF i = Groups(v) THEN <<Group(v, i)>>
    ELSE <<Group(v, i) + 128>> \o RefVarintFrom(v, i + 1)

RefVarint(v) == RefVarintFrom(v, 1)

\* Varint decoding to 32 bits: v = sum of (b[i] & 127) << 7(i-1).
Shl7(v) ==
    <<((Hi(v) * 128) + (Lo(v) \div 512)) % 65536, (Lo(v) * 128) % 65536>>

RECURSIVE DecodeFrom(_, _)
DecodeFrom(b, i) ==
    IF i > Len(b) THEN <<0, 0>>
    ELSE LET rest == Shl7(DecodeFrom(b, i + 1))
         IN  <<Hi(rest), Lo(rest) + (b[i] % 128)>>

Decode(b) == DecodeFrom(b, 1)

\* The bytes the last call appended to the current stream.
Appended ==
    SubSeq(Stream(Machine), Len(Stream(prev)) + 1, Len(Stream(Machine)))

\* Whether the last call left the bytes written before it in place.
KeptPrefix ==
    /\ Len(Stream(Machine)) >= Len(Stream(prev))
    /\ SubSeq(Stream(Machine), 1, Len(Stream(prev))) = Stream(prev)

\* ------------------------------------------- uint32 over its whole range
VarintArgs ==
    {U32(0), U32(1), U32(127), U32(128), U32(150), U32(300), U32(16383),
     U32(16384), U32(2097151), U32(2097152), U32(268435455), U32(268435456),
     U32(2147483647), <<32768, 0>>, MaxU32}

VarintPad ==
    /\ Len(log) < MaxPad
    /\ ~LastIs("uint32")
    /\ Call("bool", TRUE, write(Before, "bool", TRUE))

VarintUint32 == \E v \in VarintArgs :
    /\ ~LastIs("uint32")
    /\ Call("uint32", v, write(Before, "uint32", v))

InitVarint == InitWith(ChunkSizes \cup {DefaultBufferSize}, {FALSE})

NextVarint ==
    \/ VarintPad
    \/ VarintUint32

SpecVarint == InitVarint /\ [][NextVarint]_vars

\* A writer with room for the fast route, and one that tests every byte.
Roomy == expand(NewMachine(DefaultBufferSize), 1)
Tight == NewMachine(1)

\* C10: uint32(v) appends 1 to 5 bytes, the 7 bit groups of v least
\* significant first with 0x80 on every byte but the last, which decode to v;
\* 0 gives 00 and 150 gives 96 01; the fast route and the checked route write
\* the same bytes.
Uint32IsVarint ==
    LastIs("uint32") =>
        LET v == Last.arg
            b == Appended
        IN  /\ KeptPrefix
            /\ Len(b) >= 1 /\ Len(b) <= 5
            /\ \A i \in 1..Len(b) :
                /\ b[i] % 128 = Group(v, i)
                /\ (b[i] >= 128) <=> (i < Len(b))
            /\ Decode(b) = v
            /\ b = RefVarint(v)
            /\ v = U32(0) => b = <<0>>
            /\ v = U32(150) => b = <<150, 1>>
            /\ Stream(uint32_fast(Roomy, v)) = b
            /\ Stream(uint32_slow(Tight, v)) = b

\* C10 witness: 2^32-1 written as five bytes by the checked route across the
\* end of a chunk, and 2^32-1 written by the fast route.
Uint32IsVarintWitness ==
    /\ LastIs("uint32")
    /\ Last.arg = MaxU32
    /\ Appended = <<255, 255, 255, 255, 15>>
    /\ ~uint32_fast_route(prev)
    /\ Len(bufs) > Len(prev.bufs)
    /\ prev.pos > 0
    /\ Decode(Appended) = MaxU32

\* ------------------------------------------------------ the field encoder
\* types.wireTypes: the wire type of each scalar type (undefined for the name
\* of a message or an enum).
IsScalar(type) ==
    type \in {"int32", "uint32", "uint64", "bool", "fixed32", "bytes"}

wireTypes(type) ==
    CASE type \in {"int32", "uint32", "uint64", "bool"} -> 0
      [] type = "bytes" -> 2
      [] type = "fixed32" -> 5

\* types.packableWireTypes[type] !== undefined: the numeric types and bool.
IsPackable(type) ==
    type \in {"int32", "uint32", "uint64", "bool", "fixed32"}

\* A resolved field: id, type, repeated (from its rule), the "packed" option
\* ("unset", "true" or "false") and resolvedType ("null" for a scalar type,
\* else "Enum" or "Type").
FieldOf(id, type, repeated, packedOption, resolvedType) ==
    [id |-> id, type |-> type, repeated |-> repeated,
     packedOption |-> packedOption, resolvedType |-> resolvedType]

\* Field#packed: this.getOption("packed") !== false.
packed(f) == f.packedOption # "false"

\* Type#encodeDelimited_ of the message type Msg { uint32 a = 1; } for a
\* message whose field a is set: fork, encode the fields, finish, then
\* bytes(body) on the writer it was given.
encodeDelimited(value, w) ==
    LET body == finish(write_uint32(write_tag(fork(w), 1, 0), value))
    IN  IF body.ret = None THEN [body EXCEPT !.err = TRUE]
        ELSE write_bytes(body, body.ret[1])

\* writer[type](value) for each element in turn.
RECURSIVE write_each(_, _, _, _)
write_each(w, type, value, i) ==
    IF i > Len(value) \/ w.err THEN w
    ELSE write_each(write(w, type, value[i]), type, value, i + 1)

\* Mutant of encode_packed: the block is written without testing buf.length.
encode_packed_untested(id, type, value, w) ==
    LET w1 == finish(write_each(fork(w), type, value, 1))
    IN  IF w1.err THEN w1
        ELSE IF w1.ret = None THEN [w1 EXCEPT !.err = TRUE]
        ELSE write_bytes(write_tag(w1, id, 2), w1.ret[1])

\* The branch of a repeated field that is packed: fork, the elements,
\* finish, and tag(id, 2).bytes(buf) when buf.length is not 0.
encode_packed(id, type, value, w) ==
    LET w1 == finish(write_each(fork(w), type, value, 1))
    IN  IF w1.err THEN w1
        ELSE IF w1.ret = None THEN [w1 EXCEPT !.err = TRUE]
        ELSE IF Len(w1.ret[1]) # 0
             THEN write_bytes(write_tag(w1, id, 2), w1.ret[1])
             ELSE w1

\* resolvedType.encodeDelimited_(value, writer.tag(id, 2)): reading the method
\* of null throws before the tag is written; an Enum has no such method, so
\* the call throws once its arguments are evaluated, the tag written.
encode_delimited(id, resolvedType, value, w) ==
    IF w.err THEN w
    ELSE CASE resolvedType = "null" -> [w EXCEPT !.err = TRUE]
           [] resolvedType = "Enum" -> [write_tag(w, id, 2) EXCEPT !.err = TRUE]
           [] resolvedType = "Type" -> encodeDelimited(value, write_tag(w, id, 2))

RECURSIVE encode_delimited_each(_, _, _, _, _)
encode_delimited_each(id, resolvedType, value, w, i) ==
    IF i > Len(value) \/ w.err THEN w
    ELSE encode_delimited_each(id, resolvedType, value,
            encode_delimited(id, resolvedType, value[i], w), i + 1)

\* The type the value is written as.
encode_type(f) == IF f.resolvedType = "Enum" THEN "uint32" ELSE f.type

encode_internal(f, value, w) ==
    LET type == encode_type(f)
    IN  IF f.repeated
        THEN IF packed(f) /\ IsPackable(type)
             THEN encode_packed(f.id, type, value, w)
             ELSE encode_delimited_each(f.id, f.resolvedType, value, w, 1)
        ELSE IF IsScalar(type)
             THEN write(write_tag(w, f.id, wireTypes(type)), type, value)
             ELSE encode_delimited(f.id, f.resolvedType, value, w)

\* encode_generate: the statements generated for the field, as the branch
\* taken and the values printed into it.
encode_generate(f) ==
    LET type == encode_type(f)
    IN  IF f.repeated
        THEN IF packed(f) /\ IsPackable(type)
             THEN [branch |-> "packed", id |-> f.id, type |-> type,
                   wireType |-> 2, bound |-> f.resolvedType]
             ELSE [branch |-> "each", id |-> f.id, type |-> type,
                   wireType |-> 2, bound |-> f.resolvedType]
        ELSE IF IsScalar(type)
             THEN [branch |-> "scalar", id |-> f.id, type |-> type,
                   wireType |-> wireTypes(type), bound |-> f.resolvedType]
             ELSE [branch |-> "message", id |-> f.id, type |-> type,
                   wireType |-> 2, bound |-> f.resolvedType]

\* Running the generated encoder.
encode_generated(gen, value, w) ==
    CASE gen.branch = "packed" -> encode_packed(gen.id, gen.type, value, w)
      [] gen.branch = "each" ->
            encode_delimited_each(gen.id, gen.bound, value, w, 1)
      [] gen.branch = "scalar" ->
            write(write_tag(w, gen.id, gen.wireType), gen.type, value)
      [] gen.branch = "message" ->
            encode_delimited(gen.id, gen.bound, value, w)

\* FieldPrototype.encode at its first call: the generated encoder where
\* code generation is supported, encode_internal where it is not. It returns
\* the writer.
encode_setup(f, value, w, supported) ==
    LET done == IF supported THEN encode_generated(encode_generate(f), value, w)
                ELSE encode_internal(f, value, w)
    IN  [done EXCEPT !.ret = None]

\* The fields and the values the runs encode.
FieldIds == {3, 16}
ScalarFields ==
    {FieldOf(id, type, FALSE, "unset", "null") :
        id \in FieldIds, type \in {"uint32", "fixed32"}}
BytesFields == {FieldOf(id, "bytes", FALSE, "unset", "null") : id \in FieldIds}
EnumFields == {FieldOf(3, "Color", FALSE, "unset", "Enum")}
MessageFields == {FieldOf(3, "Msg", FALSE, "unset", "Type")}
RepeatedFields ==
    {FieldOf(id, type, TRUE, option, "null") :
        id \in FieldIds, type \in {"int32", "fixed32"},
        option \in {"unset", "true", "false"}}
    \cup {FieldOf(3, "Color", TRUE, option, "Enum") :
            option \in {"unset", "false"}}
RepeatedBytesFields ==
    {FieldOf(3, "bytes", TRUE, option, "null") : option \in {"unset", "false"}}
RepeatedMessageFields == {FieldOf(3, "Msg", TRUE, "unset", "Type")}

NumberArgs == {U32(1), U32(150)}
NumberListArgs == {<<>>, <<U32(1)>>, <<U32(1), U32(2), U32(150)>>}
BytesListArgs == {<<>>, << <<170, 187>> >>, << <<>>, <<170>> >>}

CanEncode == Len(log) < MaxEncodeOps

EncodeCall(f, value) ==
    /\ CanEncode
    /\ Call("encode", [field |-> f, value |-> value],
            encode_setup(f, value, Before, codegen))

EncodeNumber ==
    \E f \in ScalarFields \cup EnumFields \cup MessageFields :
        \E value \in NumberArgs : EncodeCall(f, value)

EncodeBytes ==
    \E f \in BytesFields : \E value \in BytesArgs : EncodeCall(f, value)

EncodeNumbers ==
    \E f \in RepeatedFields \cup RepeatedMessageFields :
        \E value \in NumberListArgs : EncodeCall(f, value)

EncodeBytesList ==
    \E f \in RepeatedBytesFields :
        \E value \in BytesListArgs : EncodeCall(f, value)

\* A write before the field, so that the writer holds bytes.
EncodePrefix ==
    /\ CanEncode
    /\ Call("bool", TRUE, write(Before, "bool", TRUE))

\* A fork before the field, as a caller encoding a sub-message makes.
EncodeFork == CanEncode /\ Call("fork", None, fork(Before))

InitEncode == InitWith(ChunkSizes, BOOLEAN)

NextEncode ==
    \/ EncodeNumber
    \/ EncodeBytes
    \/ EncodeNumbers
    \/ EncodeBytesList
    \/ EncodePrefix
    \/ EncodeFork

SpecEncode == InitEncode /\ [][NextEncode]_vars

\* ------------------------------------------------ the field encoder's claims
\* The field and the value of the last call, an encode.
LastField == Last.arg.field
LastValue == Last.arg.value

\* The one byte tag(id, wireType) writes.
TagByte(id, wireType) == OpBytes([kind |-> "tag", arg |-> <<id, wireType>>])

\* The tag of a field as the wire format has it: the varint of
\* (id << 3) | wireType.
TagVarint(id, wireType) == RefVarint(U32(id * 8 + wireType))

\* The wire type the field is written with.
WireTypeOf(f) ==
    IF (f.repeated /\ packed(f) /\ IsPackable(encode_type(f)))
        \/ ~IsScalar(encode_type(f))
    THEN 2
    ELSE wireTypes(encode_type(f))

IsPrefix(p, q) == Len(p) <= Len(q) /\ SubSeq(q, 1, Len(p)) = p

\* C7: for every field id and wire type, the bytes Field.encode writes in
\* front of a value are the varint of (id << 3) | wireType.
EncodeTagIsVarint ==
    (LastIs("encode") /\ Len(Appended) > 0) =>
        IsPrefix(TagVarint(LastField.id, WireTypeOf(LastField)), Appended)

\* The element encodings of a repeated scalar value, in element order.
RECURSIVE Elements(_, _, _)
Elements(type, value, i) ==
    IF i > Len(value) THEN <<>>
    ELSE OpBytes([kind |-> type, arg |-> value[i]])
            \o Elements(type, value, i + 1)

PackedBlock(f, value) ==
    LET body == Elements(encode_type(f), value, 1)
    IN  IF Len(value) = 0 THEN <<>>
        ELSE TagByte(f.id, 2) \o RefVarint(U32(Len(body))) \o body

IsPackedCall ==
    /\ LastIs("encode")
    /\ LastField.repeated
    /\ packed(LastField)
    /\ IsPackable(encode_type(LastField))

\* C8: encoding a repeated field of a packable type with packed enabled
\* appends nothing for 0 elements, and otherwise one tag byte of wire type 2
\* (the varint tag for ids up to 15), the varint of the byte length of the
\* element encodings, and the element encodings in order; int32 [1, 2, 150]
\* on field 3 gives 1A 04 01 02 96 01; the bytes written before are kept and
\* the fork it opened is closed.
PackedRepeatedLayout ==
    IsPackedCall =>
        /\ KeptPrefix
        /\ Appended = PackedBlock(LastField, LastValue)
        /\ Len(stack) = Len(prev.stack)
        /\ Len(LastValue) > 0 =>
            /\ Appended[1] % 8 = 2
            /\ LastField.id <= 15 => IsPrefix(TagVarint(LastField.id, 2), Appended)
        /\ (LastField.id = 3 /\ LastValue = <<U32(1), U32(2), U32(150)>>
                /\ LastField.type = "int32")
            => Appended = <<26, 4, 1, 2, 150, 1>>

\* C8 witness: int32 [1, 2, 150] on field 3 packed behind bytes written
\* before the call.
PackedRepeatedLayoutWitness ==
    /\ IsPackedCall
    /\ LastField.id = 3
    /\ LastField.type = "int32"
    /\ LastValue = <<U32(1), U32(2), U32(150)>>
    /\ Len(Stream(prev)) > 0
    /\ Stream(Machine) = Stream(prev) \o <<26, 4, 1, 2, 150, 1>>

RECURSIVE TaggedElements(_, _, _)
TaggedElements(f, value, i) ==
    IF i > Len(value) THEN <<>>
    ELSE TagByte(f.id, wireTypes(encode_type(f)))
            \o OpBytes([kind |-> encode_type(f), arg |-> value[i]])
            \o TaggedElements(f, value, i + 1)

\* C9: encoding a repeated field that is not packed-encoded and whose type
\* is scalar (or an enum) appends, for each element in order, tag(id,
\* wireType) and the scalar encoding of the element.
RepeatedUnpackedScalars ==
    (/\ LastIs("encode")
     /\ LastField.repeated
     /\ ~(packed(LastField) /\ IsPackable(encode_type(LastField)))
     /\ LastField.resolvedType # "Type")
    =>  /\ ~err
        /\ KeptPrefix
        /\ Appended = TaggedElements(LastField, LastValue, 1)

\* ------------------------------------------------- bytes of every length
\* value.copy(target, offset, 0, len) of a node buffer: copies what fits.
copy(target, source, offset) ==
    LET n == Min(Len(source), Max(Len(target) - offset, 0))
    IN  SubSeq(target, 1, offset) \o SubSeq(source, 1, n)
            \o SubSeq(target, offset + n + 1, Len(target))

\* BufferWriterPrototype.bytes: uint32(len), then the payload when len is
\* not 0. BufferWriter.alloc sets up BufferWriter (its own empty sentinel),
\* never Writer.setup, so emptyArray stays as it was; the cells of a chunk
\* that allocUnsafe leaves unset are all stored to before they are read.
write_bytes_buffer(w, value) ==
    LET n == Len(value)
        w1 == write_uint32(w, U32(n))
        w2 == IF w1.pos + n > w1.len THEN expand(w1, n) ELSE w1
        w3 == IF n # 0 /\ ~w2.err
              THEN [w2 EXCEPT !.buf = Some(copy(w2.buf[1], value, w2.pos)),
                              !.pos = w2.pos + n]
              ELSE w1
    IN  [w3 EXCEPT !.emptyArray = w.emptyArray]

\* A payload of the bytes lo*7 .. hi*7 (mod 256).
RECURSIVE Ramp(_, _)
Ramp(lo, hi) ==
    IF lo > hi THEN <<>>
    ELSE IF lo = hi THEN <<(lo * 7) % 256>>
    ELSE LET mid == (lo + hi) \div 2
         IN  Ramp(lo, mid) \o Ramp(mid + 1, hi)

\* Payload lengths: empty, short, longer than the small chunks, two prefix
\* bytes, and longer than the default chunk.
PayloadLens == {0, 1, 2, 7, 130, DefaultBufferSize + 44}

Payloads == {Ramp(1, n) : n \in PayloadLens}

BytesPad ==
    /\ Len(log) < MaxPad
    /\ ~LastIs("bytes")
    /\ ~LastIs("bytes_buffer")
    /\ Call("bool", TRUE, write(Before, "bool", TRUE))

BytesWrite == \E v \in Payloads :
    /\ ~LastIs("bytes")
    /\ ~LastIs("bytes_buffer")
    /\ Call("bytes", v, write_bytes(Before, v))

BytesWriteBuffer == \E v \in Payloads :
    /\ ~LastIs("bytes")
    /\ ~LastIs("bytes_buffer")
    /\ Call("bytes_buffer", v, write_bytes_buffer(Before, v))

InitBytes == InitWith(ChunkSizes \cup {DefaultBufferSize}, {FALSE})

NextBytes ==
    \/ BytesPad
    \/ BytesWrite
    \/ BytesWriteBuffer

SpecBytes == InitBytes /\ [][NextBytes]_vars

\* C11: bytes(value) of length 0 appends the single byte 00; of length n > 0
\* it appends the varint of n and then the n bytes of value, unchanged and in
\* order, behind the bytes already written, also when the payload does not
\* fit in the current chunk and when n exceeds the default chunk size; the
\* same for the node buffer writer.
BytesLengthPrefixed ==
    (LastIs("bytes") \/ LastIs("bytes_buffer")) =>
        LET value == Last.arg
            n == Len(value)
        IN  /\ ~err
            /\ KeptPrefix
            /\ n = 0 => Appended = <<0>>
            /\ n > 0 => /\ Appended = RefVarint(U32(n)) \o value
                        /\ Len(Appended) = Groups(U32(n)) + n
                        /\ \A i \in 1..n :
                              Appended[Groups(U32(n)) + i] = value[i]

\* C11 witness: a payload longer than the default chunk written behind
\* bytes of a 256 byte chunk that it does not fit in.
BytesLengthPrefixedWitness ==
    /\ LastIs("bytes")
    /\ Len(Last.arg) = DefaultBufferSize + 44
    /\ BUFFER_SIZE = DefaultBufferSize
    /\ prev.pos > 0
    /\ Len(bufs) > Len(prev.bufs)
    /\ Appended = <<172, 2>> \o Last.arg

\* ------------------------------------------------------------- strings
\* A string is the sequence of its UTF-16 code units (charCodeAt).
\* (c & 0xFC00) === 0xD800 and (c & 0xFC00) === 0xDC00
IsHigh(c) == c \div 1024 = 54
IsLow(c) == c \div 1024 = 55

\* The test that joins value[i] and value[i + 1] into one code point.
IsPair(value, i) ==
    /\ IsHigh(value[i])
    /\ i + 1 <= Len(value)
    /\ IsLow(value[i + 1])

\* Mutant of string_length: a surrogate pair is counted as one 3 byte unit.
RECURSIVE string_length_pair_as_three(_, _)
string_length_pair_as_three(value, i) ==
    IF i > Len(value) THEN 0
    ELSE IF value[i] < 128 THEN 1 + string_length_pair_as_three(value, i + 1)
    ELSE IF value[i] < 2048 THEN 2 + string_length_pair_as_three(value, i + 1)
    ELSE IF IsPair(value, i) THEN 3 + string_length_pair_as_three(value, i + 2)
    ELSE 3 + string_length_pair_as_three(value, i + 1)

\* The first loop of Writer#string: blen.
RECURSIVE string_length(_, _)
string_length(value, i) ==
    IF i > Len(value) THEN 0
    ELSE IF value[i] < 128 THEN 1 + string_length(value, i + 1)
    ELSE IF value[i] < 2048 THEN 2 + string_length(value, i + 1)
    ELSE IF IsPair(value, i) THEN 4 + string_length(value, i + 2)
    ELSE 3 + string_length(value, i + 1)

\* The second loop of Writer#string: the bytes of each code unit or pair.
RECURSIVE string_body(_, _, _)
string_body(w, value, i) ==
    IF i > Len(value) THEN w
    ELSE LET c1 == value[i]
         IN  IF c1 < 128 THEN string_body(put(w, c1), value, i + 1)
             ELSE IF c1 < 2048
             THEN string_body(
                    put(put(w, (c1 \div 64) + 192), (c1 % 64) + 128),
                    value, i + 1)
             ELSE IF IsPair(value, i)
             THEN LET c == 65536 + ((c1 % 1024) * 1024) + (value[i + 1] % 1024)
                      a1 == put(w, (c \div 262144) + 240)
                      a2 == put(a1, ((c \div 4096) % 64) + 128)
                      a3 == put(a2, ((c \div 64) % 64) + 128)
                  IN  string_body(put(a3, (c % 64) + 128), value, i + 2)
             ELSE LET b1 == put(w, (c1 \div 4096) + 224)
                      b2 == put(b1, ((c1 \div 64) % 64) + 128)
                  IN  string_body(put(b2, (c1 % 64) + 128), value, i + 1)

write_string(w, value) ==
    IF Len(value) # 0
    THEN LET blen == string_length(value, 1)
             w1 == write_uint32(w, U32(blen))
             w2 == IF w1.pos + blen > w1.len THEN expand(w1, blen) ELSE w1
         IN  string_body(w2, value, 1)
    ELSE put(IF w.pos >= w.len THEN expand(w, 1) ELSE w, 0)

\* Code units at the edges of each branch: the last 1 byte unit, the first
\* and the last 2 byte units, the first 3 byte unit, a high and a low
\* surrogate, and the last unit.
StringUnits == {127, 128, 2047, 2048, 55357, 56320, 65535}

RECURSIVE StringsUpTo(_)
StringsUpTo(n) ==
    IF n = 0 THEN {<<>>}
    ELSE LET shorter == StringsUpTo(n - 1)
         IN  shorter \cup
             {Append(t, c) : t \in {u \in shorter : Len(u) = n - 1},
                             c \in StringUnits}

StringArgs == StringsUpTo(MaxStrLen)

StringPad ==
    /\ Len(log) < MaxPad
    /\ ~LastIs("string")
    /\ Call("bool", TRUE, write(Before, "bool", TRUE))

StringWrite == \E v \in StringArgs :
    /\ ~LastIs("string")
    /\ Call("string", v, write_string(Before, v))

InitString == InitWith(ChunkSizes \cup {DefaultBufferSize}, {FALSE})

NextString ==
    \/ StringPad
    \/ StringWrite

SpecString == InitString /\ [][NextString]_vars

\* The UTF-8 length by the rule of the claim: 1 byte per code unit below
\* 0x80, 2 below 0x800, 4 per high surrogate followed by a low surrogate, 3
\* otherwise.
RECURSIVE Utf8Len(_, _)
Utf8Len(value, i) ==
    IF i > Len(value) THEN 0
    ELSE IF value[i] < 128 THEN 1 + Utf8Len(value, i + 1)
    ELSE IF value[i] < 2048 THEN 2 + Utf8Len(value, i + 1)
    ELSE IF /\ value[i] >= 55296 /\ value[i] <= 56319 /\ i < Len(value)
            /\ value[i + 1] >= 56320 /\ value[i + 1] <= 57343
         THEN 4 + Utf8Len(value, i + 2)
    ELSE 3 + Utf8Len(value, i + 1)

\* C12: the length prefix string(value) emits equals the number of body
\* bytes it emits after the prefix, which is 1 byte per code unit below 0x80,
\* 2 below 0x800, 4 per valid surrogate pair and 3 otherwise; the empty
\* string emits the single byte 00.
StringPrefixIsBodyLength ==
    LastIs("string") =>
        LET value == Last.arg
            n == Utf8Len(value, 1)
            k == Groups(U32(n))
        IN  /\ ~err
            /\ KeptPrefix
            /\ Len(value) = 0 => Appended = <<0>>
            /\ Len(value) > 0 =>
                /\ Len(Appended) = k + n
                /\ SubSeq(Appended, 1, k) = RefVarint(U32(n))
                /\ Decode(SubSeq(Appended, 1, k)) = U32(Len(Appended) - k)
            /\ value = <<2048>> => Appended = <<3, 224, 160, 128>>

\* C12 witness: a valid pair followed by an unpaired high surrogate, 4 + 3
\* body bytes behind the prefix 07, written across the end of a chunk.
StringPrefixIsBodyLengthWitness ==
    /\ LastIs("string")
    /\ Last.arg = <<55357, 56320, 55357>>
    /\ Appended = <<7, 240, 159, 144, 128, 237, 160, 189>>
    /\ prev.pos > 0
    /\ Len(bufs) > Len(prev.bufs)

\* ---------------------------------------------------------------- sint32
\* ToInt32 of a signed 32 bit integer: its two's complement bits.
ToInt32(v) ==
    IF v >= 0 THEN U32(v)
    ELSE LET m == U32(-(v + 1)) IN <<65535 - Hi(m), 65535 - Lo(m)>>

\* value << 1
Shl1(v) == <<((Hi(v) * 2) + (Lo(v) \div 32768)) % 65536, (Lo(v) * 2) % 65536>>

\* Mutant of Sar31: the shift is logical (>>>), not arithmetic.
Sar31_logical(v) == IF Hi(v) >= 32768 THEN <<0, 1>> ELSE <<0, 0>>

\* value >> 31: the sign bit in every position.
Sar31(v) == IF Hi(v) >= 32768 THEN <<65535, 65535>> ELSE <<0, 0>>

\* a ^ b on k bit numbers.
RECURSIVE XorBits(_, _, _)
XorBits(a, b, k) ==
    IF k = 0 THEN 0
    ELSE ((a + b) % 2) + (2 * XorBits(a \div 2, b \div 2, k - 1))

Xor32(a, b) == <<XorBits(Hi(a), Hi(b), 16), XorBits(Lo(a), Lo(b), 16)>>

\* Writer#sint32: this.uint32(value << 1 ^ value >> 31).
write_sint32(w, value) ==
    write_uint32(w, Xor32(Shl1(ToInt32(value)), Sar31(ToInt32(value))))

MinInt32 == -2147483647 - 1

Sint32Args ==
    {0, -1, 1, -2, 2, 63, -64, 64, -65, 8191, -8192, 8192, 1048575, -1048576,
     134217727, -134217728, 134217728, 1073741823, -1073741824, 1073741824,
     2147483647, -2147483647, MinInt32}

SintPad ==
    /\ Len(log) < MaxPad
    /\ ~LastIs("sint32")
    /\ Call("bool", TRUE, write(Before, "bool", TRUE))

SintWrite == \E v \in Sint32Args :
    /\ ~LastIs("sint32")
    /\ Call("sint32", v, write_sint32(Before, v))

InitSint == InitWith(ChunkSizes \cup {DefaultBufferSize}, {FALSE})

NextSint ==
    \/ SintPad
    \/ SintWrite

SpecSint == InitSint /\ [][NextSint]_vars

\* The zig-zag value by arithmetic: 2v for v >= 0 and -2v - 1 for v < 0.
ZigZag(v) ==
    LET m == IF v >= 0 THEN v ELSE -(v + 1)
        r == IF v >= 0 THEN 0 ELSE 1
    IN  <<m \div 32768, ((m % 32768) * 2) + r>>

\* Zig-zag decoding: n / 2 for an even n and -(n + 1) / 2 for an odd n.
UnZigZag(n) ==
    LET h == (Hi(n) * 32768) + (Lo(n) \div 2)
    IN  IF Lo(n) % 2 = 0 THEN h ELSE (-h) - 1

\* C13: sint32(v) appends the bytes uint32 appends for the zig-zag value
\* ((v << 1) ^ (v >> 31)) mod 2^32; 0, -1, 1, -2 map to 0, 1, 2, 3, and
\* zig-zag decoding the varint gives v back, also for -2^31 and 2^31 - 1.
Sint32IsZigZag ==
    LastIs("sint32") =>
        LET v == Last.arg
        IN  /\ ~err
            /\ KeptPrefix
            /\ Appended = RefVarint(ZigZag(v))
            /\ Appended = OpBytes([kind |-> "uint32", arg |-> ZigZag(v)])
            /\ UnZigZag(Decode(Appended)) = v
            /\ v = 0 => Appended = <<0>>
            /\ v = -1 => Appended = <<1>>
            /\ v = 1 => Appended = <<2>>
            /\ v = -2 => Appended = <<3>>

\* C13 witness: -2^31, whose zig-zag value is 2^32 - 1, written behind
\* other bytes.
Sint32IsZigZagWitness ==
    /\ LastIs("sint32")
    /\ Last.arg = MinInt32
    /\ Appended = <<255, 255, 255, 255, 15>>
    /\ UnZigZag(Decode(Appended)) = MinInt32
    /\ prev.pos > 0

\* ================================================== the reflection tree
\* A reflection object is a record kept in objects under its identity, its
\* index; 0 stands for null. nested is None (undefined) or Some of the entries
\* [name, id] in insertion order, the key order of a JavaScript object.
\* A call works on a record [objects, thrown, ret]: the objects, the error
\* thrown ("none" when the call returned) and the value returned (an object,
\* Null, or Undefined).
Null == 0
Undefined == -1

\* The constructors in nestedTypes that the tree is built of.
NestedKinds == {"Enum", "Type", "Service", "Field", "Namespace"}

\* instanceof Namespace: a Type is a Namespace too.
IsNamespace(o) == o.kind \in {"Namespace", "Type", "Service"}

\* ReflectionObject.call(this, name, options), then the fields the
\* constructors of Namespace and Field set.
NewObject(kind, name) ==
    [kind |-> kind, name |-> name, parent |-> Null, nested |-> None,
     resolved |-> FALSE, type |-> "", repeated |-> FALSE, map |-> FALSE,
     extend |-> None, optionDefault |-> None, resolvedType |-> Null,
     defaultValue |-> <<"null">>, visible |-> "null"]

Tree(objs) == [objects |-> objs, thrown |-> "none", ret |-> Undefined]

Throw(T, error) == [T EXCEPT !.thrown = error, !.ret = Undefined]

Return(T, value) == [T EXCEPT !.ret = value]

\* nested[name], Null when there is none.
RECURSIVE EntryFrom(_, _, _)
EntryFrom(entries, name, i) ==
    IF i > Len(entries) THEN Null
    ELSE IF entries[i].name = name THEN entries[i].id
    ELSE EntryFrom(entries, name, i + 1)

Entry(entries, name) == EntryFrom(entries, name, 1)

\* nested[name] = id: a key already there keeps its place.
RECURSIVE AssignFrom(_, _, _, _)
AssignFrom(entries, name, id, i) ==
    IF i > Len(entries) THEN <<[name |-> name, id |-> id]>>
    ELSE IF entries[i].name = name
    THEN <<[name |-> name, id |-> id]>> \o SubSeq(entries, i + 1, Len(entries))
    ELSE <<entries[i]>> \o AssignFrom(entries, name, id, i + 1)

Assign(entries, name, id) == AssignFrom(entries, name, id, 1)

\* delete nested[name]
RECURSIVE DeleteFrom(_, _, _)
DeleteFrom(entries, name, i) ==
    IF i > Len(entries) THEN <<>>
    ELSE IF entries[i].name = name THEN SubSeq(entries, i + 1, Len(entries))
    ELSE <<entries[i]>> \o DeleteFrom(entries, name, i + 1)

Delete(entries, name) == DeleteFrom(entries, name, 1)

\* ReflectionObject#onAdd(parent): sets parent, invalidates the resolution.
onAdd(T, o, parent) ==
    [T EXCEPT !.objects[o].parent = parent, !.objects[o].resolved = FALSE]

\* ReflectionObject#onRemove(parent): clears parent.
onRemove(T, o, parent) == [T EXCEPT !.objects[o].parent = Null]

\* ReflectionObject#resolve(): sets resolved, returns this.
base_resolve(T, o) == Return([T EXCEPT !.objects[o].resolved = TRUE], o)

\* Mutant of empty: true when the namespace has no nested object.
empty_when_none(T, n) ==
    ~(T.objects[n].nested # None /\ Len(T.objects[n].nested[1]) # 0)

\* Namespace#empty: Boolean(this.nested && Object.keys(this.nested).length).
empty(T, n) ==
    T.objects[n].nested # None /\ Len(T.objects[n].nested[1]) # 0

\* Namespace#get: this.nested && this.nested[name] || null.
get(T, n, name) ==
    IF T.objects[n].nested = None THEN Null
    ELSE Entry(T.objects[n].nested[1], name)

\* Namespace#remove.
remove(T, n, o) ==
    IF T.thrown # "none" THEN T
    ELSE IF o = Null THEN Throw(T, "TypeError: object")
    ELSE IF T.objects[o].parent # n THEN Throw(T, "Error: not a member")
    ELSE IF T.objects[n].nested = None
    THEN Throw(T, "TypeError: delete of undefined")
    ELSE LET name == T.objects[o].name
             T1 == [T EXCEPT !.objects[n].nested =
                        Some(Delete(T.objects[n].nested[1], name))]
             T2 == IF empty(T1, n)
                   THEN [T1 EXCEPT !.objects[n].nested = None]
                   ELSE T1
         IN  Return(onRemove(T2, o, n), n)

\* Namespace#add, and Namespace#each as add uses it: each(object.add, object)
\* over the entries of the previous namespace, names being its keys when the
\* iteration starts; the iteration ends at the first call that returns
\* something other than undefined.
RECURSIVE add(_, _, _)
RECURSIVE each_add(_, _, _, _, _)
each_add(T, names, from, ctx, i) ==
    IF T.thrown # "none" \/ i > Len(names) THEN T
    ELSE LET child == IF T.objects[from].nested = None THEN Null
                      ELSE Entry(T.objects[from].nested[1], names[i])
             T1 == add(T, ctx, child)
         IN  IF T1.thrown # "none" \/ T1.ret # Undefined THEN T1
             ELSE each_add(T1, names, from, ctx, i + 1)

\* Mutant of add: a colliding name is taken over by the new object.
add_over_duplicate(T, n, o) ==
    IF T.thrown # "none" THEN T
    ELSE IF o = Null \/ T.objects[o].kind \notin NestedKinds
    THEN Throw(T, "TypeError: object")
    ELSE IF T.objects[o].kind = "Field" /\ T.objects[o].extend = None
    THEN Throw(T, "TypeError: extension field")
    ELSE LET name == T.objects[o].name
             T1 == IF T.objects[n].nested = None
                   THEN [T EXCEPT !.objects[n].nested = Some(<<>>)]
                   ELSE T
         IN  Return(onAdd([T1 EXCEPT !.objects[n].nested =
                               Some(Assign(T1.objects[n].nested[1], name, o))],
                          o, n), n)

add(T, n, o) ==
    IF T.thrown # "none" THEN T
    ELSE IF o = Null \/ T.objects[o].kind \notin NestedKinds
    THEN Throw(T, "TypeError: object")
    ELSE IF T.objects[o].kind = "Field" /\ T.objects[o].extend = None
    THEN Throw(T, "TypeError: extension field")
    ELSE LET name == T.objects[o].name
             old == get(T, n, name)
             T1 == IF T.objects[n].nested = None
                   THEN [T EXCEPT !.objects[n].nested = Some(<<>>)]
                   ELSE IF old = Null THEN T
                   ELSE IF /\ IsNamespace(T.objects[old])
                           /\ T.objects[old].kind # "Type"
                           /\ T.objects[o].kind = "Type"
                   THEN LET names == IF T.objects[old].nested = None THEN <<>>
                                     ELSE [i \in 1..Len(T.objects[old].nested[1])
                                             |-> T.objects[old].nested[1][i].name]
                        IN  remove(each_add(T, names, old, o, 1), n, old)
                   ELSE Throw(T, "Error: duplicate name")
         IN  IF T1.thrown # "none" THEN T1
             ELSE IF T1.objects[n].nested = None
             THEN Throw(T1, "TypeError: set on undefined")
             ELSE Return(onAdd([T1 EXCEPT !.objects[n].nested =
                                   Some(Assign(T1.objects[n].nested[1], name, o))],
                               o, n), n)

\* new Field(name, id, type, rule, extend, options); map is set by MapField.
NewField(name, type, repeated, map, extend, optionDefault) ==
    [NewObject("Field", name) EXCEPT
        !.type = type, !.repeated = repeated, !.map = map,
        !.extend = extend, !.optionDefault = optionDefault]

\* The objects a run starts with, none of them added anywhere yet: the root
\* namespace, namespaces A and B, a message type named A like the namespace,
\* an enum E and an extension field f.
RootId == 1
NsA == 2
TypeA == 3
NsB == 4
EnumE == 5
FieldF == 6

Pool(field) ==
    <<NewObject("Namespace", ""), NewObject("Namespace", "A"),
      NewObject("Type", "A"), NewObject("Namespace", "B"),
      NewObject("Enum", "E"), field>>

\* The writer is left as constructed while the tree is worked on.
WriterIdle ==
    /\ bufs = <<>>
    /\ buf = None
    /\ pos = 0
    /\ len = 0
    /\ stack = <<>>
    /\ emptyArray = None
    /\ BUFFER_SIZE = DefaultBufferSize
    /\ codegen = FALSE
    /\ ret = None
    /\ err = FALSE
    /\ log = <<>>
    /\ snaps = <<>>
    /\ prev = NewMachine(0)

NoCall ==
    [op |-> "none", self |-> Null, arg |-> <<>>, ret |-> Undefined,
     thrown |-> "none", n |-> 0]

\* A call of op on self with arg that left T.
TreeCall(op, self, arg, T) ==
    /\ objects' = T.objects
    /\ treeCall' = [op |-> op, self |-> self, arg |-> arg, ret |-> T.ret,
                    thrown |-> T.thrown, n |-> treeCall.n + 1]
    /\ objectsBefore' = objects
    /\ UNCHANGED writerVars

CanCallTree == treeCall.n < MaxTreeOps

Ids == 1..Len(objects)

Namespaces == {n \in Ids : IsNamespace(objects[n])}

\* Whether a is n or one of its ancestors.
RECURSIVE IsAncestorOrSelf(_, _, _)
IsAncestorOrSelf(objs, a, n) ==
    IF n = Null THEN FALSE
    ELSE IF a = n THEN TRUE
    ELSE IsAncestorOrSelf(objs, a, objs[n].parent)

\* namespace.add(object) of an object that is in no namespace yet; the
\* caller keeps the tree free of cycles.
TreeAdd == \E n \in Namespaces, o \in Ids \ {RootId} :
    /\ CanCallTree
    /\ objects[o].parent = Null
    /\ ~IsAncestorOrSelf(objects, o, n)
    /\ TreeCall("add", n, o, add(Tree(objects), n, o))

\* namespace.remove(object): of a member, and on the root of any object.
TreeRemove == \E n \in Namespaces, o \in Ids \ {RootId} :
    /\ CanCallTree
    /\ objects[o].parent = n \/ n = RootId
    /\ TreeCall("remove", n, o, remove(Tree(objects), n, o))

InitTreeWith(fields) ==
    /\ WriterIdle
    /\ \E field \in fields : objects = Pool(field)
    /\ treeCall = NoCall
    /\ objectsBefore = <<>>

ExtensionF == NewField("f", "int32", FALSE, FALSE, Some("A"), None)

InitTree == InitTreeWith({ExtensionF})


\* ---------------------------------------------------------------- lookup
\* A path string is the sequence of its characters; the names of the objects
\* above are single characters, the root's is the empty string.
NameChars(name) == IF name = "" THEN <<>> ELSE <<name>>

\* path.split('.'): the segments, each the sequence of its characters.
RECURSIVE SplitFrom(_, _, _)
SplitFrom(chars, i, segment) ==
    IF i > Len(chars) THEN <<segment>>
    ELSE IF chars[i] = "." THEN <<segment>> \o SplitFrom(chars, i + 1, <<>>)
    ELSE SplitFrom(chars, i + 1, Append(segment, chars[i]))

split(chars) == SplitFrom(chars, 1, <<>>)

\* ReflectionObject#root: the topmost ancestor.
RECURSIVE root(_, _)
root(objs, n) == IF objs[n].parent = Null THEN n ELSE root(objs, objs[n].parent)

\* this.nested && this.nested[segment]
RECURSIVE NestedNamed(_, _, _, _)
NestedNamed(objs, entries, segment, i) ==
    IF i > Len(entries) THEN Null
    ELSE IF NameChars(entries[i].name) = segment THEN entries[i].id
    ELSE NestedNamed(objs, entries, segment, i + 1)

\* Mutant of lookup_path: a namespace that matched the first segment but not
\* the rest ends the search.
RECURSIVE lookup_path_no_climb(_, _, _, _)
lookup_path_no_climb(objs, n, path, parentAlreadyChecked) ==
    IF Len(path) = 0 THEN Null
    ELSE IF path[1] = <<>>
    THEN lookup_path_no_climb(objs, root(objs, n), Tail(path), FALSE)
    ELSE LET found == IF objs[n].nested = None THEN Null
                      ELSE NestedNamed(objs, objs[n].nested[1], path[1], 1)
             below == IF found # Null /\ IsNamespace(objs[found])
                      THEN lookup_path_no_climb(objs, found, Tail(path), TRUE)
                      ELSE Null
         IN  IF found # Null /\ Len(path) = 1 THEN found
             ELSE IF found # Null THEN below
             ELSE IF objs[n].parent = Null \/ parentAlreadyChecked THEN Null
             ELSE lookup_path_no_climb(objs, objs[n].parent, path, FALSE)

\* Namespace#lookup of a path array.
RECURSIVE lookup_path(_, _, _, _)
lookup_path(objs, n, path, parentAlreadyChecked) ==
    IF Len(path) = 0 THEN Null
    ELSE IF path[1] = <<>>
    THEN lookup_path(objs, root(objs, n), Tail(path), FALSE)
    ELSE LET found == IF objs[n].nested = None THEN Null
                      ELSE NestedNamed(objs, objs[n].nested[1], path[1], 1)
             below == IF found # Null /\ IsNamespace(objs[found])
                      THEN lookup_path(objs, found, Tail(path), TRUE)
                      ELSE Null
         IN  IF found # Null /\ Len(path) = 1 THEN found
             ELSE IF found # Null /\ below # Null THEN below
             ELSE IF objs[n].parent = Null \/ parentAlreadyChecked THEN Null
             ELSE lookup_path(objs, objs[n].parent, path, FALSE)

\* Namespace#lookup of a path string.
lookup(objs, n, chars) ==
    IF Len(chars) = 0 THEN Null
    ELSE lookup_path(objs, n, split(chars), FALSE)

\* The path strings looked up: "", ".", names, dotted paths one to three
\* names long, absolute paths, a name no object has, a path through the
\* enum, and paths with an empty segment at the end and in the middle.
WellFormedPaths ==
    {<<"A">>, <<"E">>, <<"A", ".", "E">>, <<"A", ".", "B">>,
     <<"A", ".", "B", ".", "E">>, <<"B", ".", "E">>, <<"A", "E">>,
     <<"E", ".", "A">>, <<".", "A">>, <<".", "E">>, <<".", "A", ".", "E">>}

OddPaths ==
    {<<>>, <<".">>, <<".", ".", "E">>, <<"A", ".">>, <<"A", ".", ".", "E">>}

LookupPaths == WellFormedPaths \cup OddPaths

\* namespace.lookup(path): returns an object or null, changes nothing.
TreeLookup == \E n \in Namespaces, path \in LookupPaths :
    /\ CanCallTree
    /\ treeCall.op # "lookup"
    /\ TreeCall("lookup", n, path,
                Return(Tree(objects), lookup(objects, n, path)))

LookupAdd == treeCall.op # "lookup" /\ TreeAdd

NextLookup ==
    \/ LookupAdd
    \/ TreeLookup

SpecLookup == InitTree /\ [][NextLookup]_vars

\* ------------------------------------------------- claims on the tree
Now == Tree(objects)
Then == Tree(objectsBefore)

\* The entries of a namespace, none when nested is undefined.
Entries(objs, n) == IF objs[n].nested = None THEN <<>> ELSE objs[n].nested[1]

\* Whether the last call was op, made on a namespace.
Called(op) == treeCall.op = op

\* Whether n held x before the last call: x under its name, n its parent.
Held(n, x) ==
    /\ x # Null
    /\ objectsBefore[x].parent = n
    /\ get(Then, n, objectsBefore[x].name) = x

\* C14: remove(x) on a namespace that holds x removes only the mapping for
\* x: every other child nested in the namespace before the call is still
\* returned by get(name) after it.
RemoveKeepsSiblings ==
    (Called("remove") /\ Held(treeCall.self, treeCall.arg)) =>
        LET n == treeCall.self
            x == treeCall.arg
            before == Entries(objectsBefore, n)
        IN  /\ treeCall.thrown = "none"
            /\ get(Now, n, objectsBefore[x].name) = Null
            /\ \A i \in 1..Len(before) :
                  before[i].id # x => get(Now, n, before[i].name) = before[i].id

\* C15: adding a Type to a namespace that holds a plain Namespace of the
\* same name succeeds; afterwards the name maps to the Type, every former
\* child of the Namespace is nested in the Type, and the Namespace is no
\* longer a member of the parent.
AddTypeReparents ==
    LET n == treeCall.self
        o == treeCall.arg
        old == get(Then, n, objectsBefore[o].name)
    IN  (/\ Called("add")
         /\ objectsBefore[o].kind = "Type"
         /\ old # Null
         /\ objectsBefore[old].kind = "Namespace") =>
            LET children == Entries(objectsBefore, old)
            IN  /\ treeCall.thrown = "none"
                /\ get(Now, n, objects[o].name) = o
                /\ objects[o].parent = n
                /\ \A i \in 1..Len(children) :
                      /\ get(Now, o, children[i].name) = children[i].id
                      /\ objects[children[i].id].parent = o
                /\ objects[old].parent # n
                /\ \A i \in 1..Len(Entries(objects, n)) :
                      Entries(objects, n)[i].id # old

\* The child of m named by a segment, Null when there is none.
ChildNamed(m, segment) ==
    LET hits == {i \in 1..Len(Entries(objects, m)) :
                    NameChars(Entries(objects, m)[i].name) = segment}
    IN  IF hits = {} THEN Null
        ELSE Entries(objects, m)[CHOOSE i \in hits : TRUE].id

\* The object reached by following all segments downward from m, Null when
\* some segment names no child or leads through an object that is not a
\* namespace.
RECURSIVE Follow(_, _)
Follow(m, segments) ==
    LET child == ChildNamed(m, segments[1])
    IN  IF child = Null THEN Null
        ELSE IF Len(segments) = 1 THEN child
        ELSE IF IsNamespace(objects[child]) THEN Follow(child, Tail(segments))
        ELSE Null

\* The result from the nearest of m and its ancestors that the whole path
\* can be followed from.
RECURSIVE Nearest(_, _)
Nearest(m, segments) ==
    IF Follow(m, segments) # Null THEN Follow(m, segments)
    ELSE IF objects[m].parent = Null THEN Null
    ELSE Nearest(objects[m].parent, segments)

RECURSIVE TopOf(_)
TopOf(m) == IF objects[m].parent = Null THEN m ELSE TopOf(objects[m].parent)

\* What the claim gives for lookup(path) on m.
RECURSIVE Expected(_, _)
Expected(m, chars) ==
    IF Len(chars) = 0 THEN Null
    ELSE IF chars[1] = "." THEN Expected(TopOf(m), Tail(chars))
    ELSE Nearest(m, split(chars))

\* C16, as stated for every path: lookup("") is null, an absolute path gives
\* what the root gives for the remaining segments, a relative path gives the
\* object reached by following all segments downward from the nearest of N
\* and its ancestors from which the whole path can be followed, else null;
\* and lookup changes nothing.
LookupFollowsEveryPath ==
    Called("lookup") =>
        /\ treeCall.thrown = "none"
        /\ treeCall.ret = Expected(treeCall.self, treeCall.arg)
        /\ objects = objectsBefore

\* A relative path with an empty segment that is not its last.
HasInnerEmptySegment(chars) ==
    /\ Len(chars) > 0
    /\ chars[1] # "."
    /\ \E i \in 1..(Len(split(chars)) - 1) : split(chars)[i] = <<>>

\* C16 for the relative paths whose segments before the last are not empty.
LookupFollowsPath ==
    (Called("lookup") /\ ~HasInnerEmptySegment(treeCall.arg)) =>
        /\ treeCall.thrown = "none"
        /\ treeCall.ret = Expected(treeCall.self, treeCall.arg)
        /\ objects = objectsBefore

\* C16 witness: A.E looked up from B, nested in A, where A holds E: B cannot
\* follow the path, its parent cannot either, the root can.
LookupFollowsPathWitness ==
    /\ Called("lookup")
    /\ treeCall.self = NsB
    /\ treeCall.arg = <<"A", ".", "E">>
    /\ objects[NsB].parent = NsA
    /\ objects[NsA].parent = RootId
    /\ treeCall.ret = EnumE
    /\ Follow(NsB, split(treeCall.arg)) = Null
    /\ Follow(NsA, split(treeCall.arg)) = Null

\* --------------------------------------------------------------- addJSON
\* A JSON body is a record: falsy (null, 0, ...) or an object with the
\* properties props, and the values of id, type, role, rule, extend and
\* nested when it has them. A JSON map is the sequence of its entries
\* [key, body] in key order, the empty sequence also when it is undefined.
Body(props) ==
    [falsy |-> FALSE, props |-> props, type |-> "", role |-> None,
     rule |-> None, extend |-> None, nested |-> None]

\* Enum.testJSON, Type.testJSON and Service.testJSON: the property that
\* marks the kind.
otherTestJSON(kind, json) ==
    /\ ~json.falsy
    /\ CASE kind = "Enum" -> "values" \in json.props
         [] kind = "Type" -> "fields" \in json.props
         [] kind = "Service" -> "methods" \in json.props

\* Field.testJSON and Namespace.testJSON.
testJSON(kind, json) ==
    CASE kind = "Field" -> ~json.falsy /\ "id" \in json.props
      [] kind = "Namespace" ->
            /\ ~json.falsy
            /\ json.props \cap {"fields", "values", "id", "oneof", "methods",
                                "requestType"} = {}
      [] OTHER -> otherTestJSON(kind, json)

\* nestedTypes, in the order addJSON tries them.
nestedTypes == <<"Enum", "Type", "Service", "Field", "Namespace">>

\* The first j from..5 whose testJSON accepts the body, 0 when none does.
RECURSIVE FirstMatch(_, _)
FirstMatch(json, j) ==
    IF j > Len(nestedTypes) THEN 0
    ELSE IF testJSON(nestedTypes[j], json) THEN j
    ELSE FirstMatch(json, j + 1)

\* Enum.fromJSON, Type.fromJSON and Service.fromJSON: an object of the kind
\* under the key.
otherFromJSON(kind, key, json) == NewObject(kind, key)

\* new: the object gets the next identity.
Construct(T, object) == Return([T EXCEPT !.objects = Append(T.objects, object)],
                               Len(T.objects) + 1)

\* Namespace#addJSON, with ReflObj.fromJSON(key, nested) for each kind. The
\* throw stands behind the inner loop, outside its if: it is reached in the
\* first round whether a kind matched or not.
RECURSIVE addJSON(_, _, _)
RECURSIVE fromJSON(_, _, _, _)
fromJSON(T, kind, key, json) ==
    CASE kind = "Field" ->
            Construct(T, NewField(key, json.type, json.role = Some("repeated"),
                                  FALSE, json.extend, None))
      [] kind = "Namespace" ->
            LET made == Construct(T, NewObject("Namespace", key))
            IN  addJSON(made, made.ret, json.nested)
      [] OTHER -> Construct(T, otherFromJSON(kind, key, json))

addJSON(T, n, json) ==
    IF T.thrown # "none" THEN T
    ELSE IF Len(json) = 0 THEN Return(T, n)
    ELSE LET key == json[1].key
             nested == json[1].body
             j == FirstMatch(nested, 1)
             T1 == IF j = 0 THEN T
                   ELSE LET made == fromJSON(T, nestedTypes[j], key, nested)
                        IN  add(made, n, made.ret)
         IN  IF T1.thrown # "none" THEN T1
             ELSE Throw(T1, "TypeError: json")

\* The JSON maps added: the empty map, one entry of each kind, two entries,
\* a namespace with a nested entry, a body that has fields and an id, and
\* bodies no kind accepts.
JsonField == [Body({"id"}) EXCEPT !.type = "int32", !.extend = Some("A")]

JsonEntry(key, body) == [key |-> key, body |-> body]

JsonArgs ==
    {<<>>,
     <<JsonEntry("X", Body({"values"}))>>,
     <<JsonEntry("X", Body({"fields"}))>>,
     <<JsonEntry("X", JsonField)>>,
     <<JsonEntry("X", Body({}))>>,
     <<JsonEntry("X", Body({"fields", "id"}))>>,
     <<JsonEntry("X", Body({"values"})), JsonEntry("Y", Body({"fields"}))>>,
     <<JsonEntry("X", [Body({}) EXCEPT
                          !.nested = <<JsonEntry("Y", Body({"values"}))>>])>>,
     <<JsonEntry("X", Body({"requestType"}))>>,
     <<JsonEntry("X", [Body({}) EXCEPT !.falsy = TRUE])>>}

\* namespace.addJSON(json)
TreeAddJSON == \E n \in Namespaces, json \in JsonArgs :
    /\ CanCallTree
    /\ treeCall.op # "addJSON"
    /\ TreeCall("addJSON", n, json, addJSON(Tree(objects), n, json))

JsonAdd == treeCall.op # "addJSON" /\ TreeAdd

NextJSON ==
    \/ JsonAdd
    \/ TreeAddJSON

SpecJSON == InitTree /\ [][NextJSON]_vars

\* What addJSON is to add for an entry: an object of the first kind whose
\* testJSON accepts the body.
AllMatch(json) == \A i \in 1..Len(json) : FirstMatch(json[i].body, 1) # 0

FreshKeys(n, json) ==
    /\ \A i \in 1..Len(json) : get(Then, n, json[i].key) = Null
    /\ \A i, j \in 1..Len(json) : json[i].key = json[j].key => i = j

\* C17: for a JSON map of one or more entries that each match a classifier
\* (and whose keys are not taken), addJSON adds one object per entry, of the
\* first kind that matches, and returns the namespace without raising.
AddJSONAddsEveryEntry ==
    LET n == treeCall.self
        json == treeCall.arg
    IN  (/\ Called("addJSON")
         /\ Len(json) >= 1
         /\ AllMatch(json)
         /\ \A i \in 1..Len(json) : AllMatch(json[i].body.nested)
         /\ FreshKeys(n, json)) =>
            /\ treeCall.thrown = "none"
            /\ treeCall.ret = n
            /\ \A i \in 1..Len(json) :
                  /\ get(Now, n, json[i].key) # Null
                  /\ objects[get(Now, n, json[i].key)].kind
                        = nestedTypes[FirstMatch(json[i].body, 1)]

NextTree ==
    \/ TreeAdd
    \/ TreeRemove

SpecTree == InitTree /\ [][NextTree]_vars

\* ---------------------------------------------------------------------
\* Field#resolve and Namespace#resolveAll
\* ---------------------------------------------------------------------

\* types.defaults[type]: None for a name that is not a scalar keyword. Values
\* are written as one-element tuples of their JSON text.
defaults(type) ==
    CASE type \in {"int32", "uint32", "uint64", "fixed32"} -> Some(<<"0">>)
      [] type = "bool" -> Some(<<"false">>)
      [] type = "bytes" -> Some(<<"[]">>)
      [] OTHER -> None

\* The characters of the type names the fields use.
TypePath(type) ==
    CASE type = "A" -> <<"A">>
      [] type = "B" -> <<"B">>
      [] type = "E" -> <<"E">>
      [] type = "M" -> <<"M">>
      [] type = "A.E" -> <<"A", ".", "E">>
      [] OTHER -> <<type>>

\* The assignments of defaultValue that make no use of the looked-up type.
resolve_default_ignores_repeated(o, typeDefault) ==
    IF o.map THEN <<"{}">>
    ELSE IF o.optionDefault # None THEN o.optionDefault[1]
    ELSE typeDefault

resolve_default(o, typeDefault) ==
    IF o.map THEN <<"{}">>
    ELSE IF o.repeated THEN <<"[]">>
    ELSE IF o.optionDefault # None THEN o.optionDefault[1]
    ELSE typeDefault

\* Field#resolve with assignments made before the type is known to resolve.
resolve_marks_first(T, f) ==
    IF T.thrown # "none" THEN T
    ELSE LET o == T.objects[f]
             typeDefault == defaults(o.type)
         IN  IF o.resolved THEN Return(T, f)
             ELSE IF typeDefault # None
             THEN base_resolve(
                    [T EXCEPT !.objects[f].defaultValue =
                                  resolve_default(o, typeDefault[1])], f)
             ELSE IF o.parent = Null
             THEN Throw([T EXCEPT !.objects[f].resolved = TRUE],
                        "TypeError: lookup of null")
             ELSE LET resolved == lookup(T.objects, o.parent, TypePath(o.type))
                      kind == IF resolved = Null THEN "null"
                              ELSE T.objects[resolved].kind
                  IN  IF kind \notin {"Type", "Enum"}
                      THEN Throw([T EXCEPT !.objects[f].resolved = TRUE],
                                 "Error: unresolvable field type")
                      ELSE base_resolve(
                             [T EXCEPT
                                !.objects[f].resolvedType = resolved,
                                !.objects[f].defaultValue =
                                    resolve_default(o, IF kind = "Type"
                                                       THEN <<"null">>
                                                       ELSE <<"0">>)], f)

\* Field#resolve
resolve(T, f) ==
    IF T.thrown # "none" THEN T
    ELSE LET o == T.objects[f]
             typeDefault == defaults(o.type)
         IN  IF o.resolved THEN Return(T, f)
             ELSE IF typeDefault # None
             THEN base_resolve(
                    [T EXCEPT !.objects[f].defaultValue =
                                  resolve_default(o, typeDefault[1])], f)
             ELSE IF o.parent = Null
             THEN Throw(T, "TypeError: lookup of null")
             ELSE LET resolved == lookup(T.objects, o.parent, TypePath(o.type))
                      kind == IF resolved = Null THEN "null"
                              ELSE T.objects[resolved].kind
                  IN  IF kind \notin {"Type", "Enum"}
                      THEN Throw(T, "Error: unresolvable field type")
                      ELSE base_resolve(
                             [T EXCEPT
                                !.objects[f].resolvedType = resolved,
                                !.objects[f].defaultValue =
                                    resolve_default(o, IF kind = "Type"
                                                       THEN <<"null">>
                                                       ELSE <<"0">>)], f)

\* nested.resolve(): a Field resolves its type; a Namespace has no resolve of
\* its own and takes the one of ReflectionObject, as the other kinds do.
nested_resolve(T, o) ==
    IF T.thrown # "none" THEN T
    ELSE IF T.objects[o].kind = "Field" THEN resolve(T, o)
    ELSE base_resolve(T, o)

\* this.each(function(nested) { nested.resolve(); }): the callback returns
\* undefined, so every name is visited unless a resolve throws.
RECURSIVE each_resolve(_, _, _)
each_resolve(T, members, i) ==
    IF T.thrown # "none" \/ i > Len(members) THEN T
    ELSE each_resolve(nested_resolve(T, members[i]), members, i + 1)

\* Namespace#resolveAll
resolveAll(T, n) ==
    LET members == IF T.objects[n].nested = None THEN <<>>
                   ELSE [i \in 1..Len(T.objects[n].nested[1])
                           |-> T.objects[n].nested[1][i].id]
        T1 == each_resolve(T, members, 1)
    IN  IF T1.thrown # "none" THEN T1 ELSE base_resolve(T1, n)

\* The fields resolved: scalar types, a name that may be a Type or a
\* Namespace ("A"), an Enum ("E"), a plain Namespace ("B") and a name nothing
\* has ("M"), as singular, repeated and map fields, with and without an
\* explicit default.
ResolveFields ==
    {ExtensionF,
     NewField("f", "int32", TRUE, FALSE, Some("A"), None),
     NewField("f", "int32", FALSE, TRUE, Some("A"), None),
     NewField("f", "int32", FALSE, FALSE, Some("A"), Some(<<"7">>)),
     NewField("f", "bool", FALSE, FALSE, Some("A"), None),
     NewField("f", "A", FALSE, FALSE, Some("A"), None),
     NewField("f", "A", TRUE, FALSE, Some("A"), Some(<<"7">>)),
     NewField("f", "E", FALSE, FALSE, Some("A"), None),
     NewField("f", "E", FALSE, FALSE, Some("A"), Some(<<"7">>)),
     NewField("f", "E", TRUE, TRUE, Some("A"), None),
     NewField("f", "B", FALSE, FALSE, Some("A"), None),
     NewField("f", "M", FALSE, FALSE, Some("A"), None)}

InitResolve == InitTreeWith(ResolveFields)

\* field.resolve()
TreeResolve ==
    /\ CanCallTree
    /\ TreeCall("resolve", FieldF, None, resolve(Tree(objects), FieldF))

\* namespace.resolveAll()
TreeResolveAll == \E n \in Namespaces :
    /\ CanCallTree
    /\ TreeCall("resolveAll", n, None, resolveAll(Tree(objects), n))

\* The tree is built first and resolved afterwards.
ResolveAdd == treeCall.op \notin {"resolve", "resolveAll"} /\ TreeAdd

NextResolve ==
    \/ ResolveAdd
    \/ TreeResolve
    \/ TreeResolveAll

SpecResolve == InitResolve /\ [][NextResolve]_vars

Descendants(n) ==
    {o \in Ids : o # n /\ IsAncestorOrSelf(objects, n, o)}

Bound(o) ==
    /\ objects[o].resolved
    /\ (objects[o].kind = "Field" /\ defaults(objects[o].type) = None) =>
            objects[o].resolvedType # Null

\* C18: after resolveAll() returns on a namespace, every descendant at every
\* depth is resolved and every Field among them is bound to its type, also
\* the objects inside nested plain namespaces; the namespace itself is
\* resolved.
ResolveAllResolvesEveryDescendant ==
    (Called("resolveAll") /\ treeCall.thrown = "none") =>
        /\ objects[treeCall.self].resolved
        /\ \A o \in Descendants(treeCall.self) : Bound(o)

\* The kind of the object parent.lookup(type) gave the field before the last
\* call, "null" when it gave none.
LookedUp(f) ==
    lookup(objectsBefore, objectsBefore[f].parent,
           TypePath(objectsBefore[f].type))

LookedUpKind(f) ==
    IF LookedUp(f) = Null THEN "null" ELSE objectsBefore[LookedUp(f)].kind

IsScalarType(f) == defaults(objectsBefore[f].type) # None

\* The default the type gives: the table's for a scalar keyword, null for a
\* Type, 0 for an Enum.
TypeDefaultOf(f) ==
    IF IsScalarType(f) THEN defaults(objectsBefore[f].type)[1]
    ELSE IF LookedUpKind(f) = "Type" THEN <<"null">>
    ELSE <<"0">>

\* C19: after a resolve() that succeeds on a field not yet resolved,
\* resolvedType is null for a scalar type and else the Type or Enum that
\* parent.lookup(type) gave; defaultValue is the empty map for a map field,
\* else the empty sequence for a repeated field, else options.default when
\* present, else the type default; the field is marked resolved and nothing
\* else changes. On a resolved field resolve() changes nothing.
ResolveBindsTypeAndDefault ==
    LET f == treeCall.self
        was == objectsBefore[f]
        is == objects[f]
    IN  (Called("resolve") /\ treeCall.thrown = "none") =>
            /\ treeCall.ret = f
            /\ is.resolved
            /\ was.resolved => objects = objectsBefore
            /\ ~was.resolved =>
                /\ IF IsScalarType(f) THEN is.resolvedType = Null
                   ELSE /\ is.resolvedType = LookedUp(f)
                        /\ LookedUpKind(f) \in {"Type", "Enum"}
                /\ is.defaultValue =
                      (CASE was.map -> <<"{}">>
                         [] ~was.map /\ was.repeated -> <<"[]">>
                         [] ~was.map /\ ~was.repeated /\ was.optionDefault # None
                                -> was.optionDefault[1]
                         [] OTHER -> TypeDefaultOf(f))
                /\ \A o \in Ids \ {f} : objects[o] = objectsBefore[o]
                /\ is = [was EXCEPT !.resolved = TRUE,
                                    !.resolvedType = is.resolvedType,
                                    !.defaultValue = is.defaultValue]

\* A field was bound to the Enum its parent's parent holds and took the
\* explicit default; another call bound a repeated field to a Type.
ResolveBindsTypeAndDefaultWitness ==
    /\ Called("resolve")
    /\ treeCall.thrown = "none"
    /\ ~objectsBefore[FieldF].resolved
    /\ objects[FieldF].parent = NsA
    /\ objects[EnumE].parent = RootId
    /\ objects[FieldF].resolvedType = EnumE
    /\ objects[FieldF].defaultValue = <<"7">>

\* The field's type is no scalar keyword and its parent's lookup gives neither
\* a Type nor an Enum.
Unresolvable(f) ==
    /\ objectsBefore[f].kind = "Field"
    /\ ~objectsBefore[f].resolved
    /\ ~IsScalarType(f)
    /\ objectsBefore[f].parent # Null
    /\ LookedUpKind(f) \notin {"Type", "Enum"}

\* C20: resolve() on a field whose type is not scalar and whose parent's
\* lookup gives neither a Type nor an Enum raises "unresolvable field type"
\* and leaves the field (and the tree) as it was; a resolveAll() on the
\* namespace holding such a field raises the same error, leaves the field as
\* it was and the namespace too: the call does not mark it resolved.
UnresolvableFieldRaises ==
    /\ (Called("resolve") /\ Unresolvable(treeCall.self)) =>
            /\ treeCall.thrown = "Error: unresolvable field type"
            /\ objects = objectsBefore
    /\ (Called("resolveAll") /\ Held(treeCall.self, FieldF)
            /\ Unresolvable(FieldF)) =>
            /\ treeCall.thrown = "Error: unresolvable field type"
            /\ objects[FieldF] = objectsBefore[FieldF]
            /\ objects[treeCall.self] = objectsBefore[treeCall.self]

\* resolveAll() on a namespace that holds an enum and, after it, a field
\* whose type names a plain namespace: the enum is resolved, the error is
\* raised and the namespace is not marked.
UnresolvableFieldRaisesWitness ==
    /\ Called("resolveAll")
    /\ Held(treeCall.self, FieldF)
    /\ Held(treeCall.self, EnumE)
    /\ Unresolvable(FieldF)
    /\ LookedUpKind(FieldF) = "Namespace"
    /\ objects[EnumE].resolved
    /\ ~objects[treeCall.self].resolved
    /\ treeCall.thrown = "Error: unresolvable field type"

\* ---------------------------------------------------------------------
\* The Field constructor and Field.fromJSON
\* ---------------------------------------------------------------------

\* Argument values: undefined, an object, a number (numerator over
\* denominator) and a string, written as the pieces it is made of.
Undef == [kind |-> "undefined"]

Obj == [kind |-> "object"]

Num(p, q) == [kind |-> "number", p |-> p, q |-> q]

Str(pieces) == [kind |-> "string", pieces |-> pieces]

\* util.isInteger(id)
isInteger(v) == v.kind = "number" /\ v.p % v.q = 0

\* String#toLowerCase on one piece.
toLowerCase(piece) ==
    CASE piece = "REQUIRED" -> "required"
      [] piece = "Optional" -> "optional"
      [] piece = "Repeated" -> "repeated"
      [] OTHER -> piece

\* /^required|optional|repeated$/.test(s): an alternation of "^required",
\* "optional" and "repeated$".
rule_test(s) ==
    \/ Len(s) > 0 /\ s[1] = "required"
    \/ \E i \in 1..Len(s) : s[i] = "optional"
    \/ Len(s) > 0 /\ s[Len(s)] = "repeated"

\* new Field(name, id, type, rule, extend, options): the field made, or the
\* error raised.
Field(name, id, type, rule0, extend0, options0) ==
    LET shift1 == rule0.kind = "object"
        shift2 == ~shift1 /\ extend0.kind = "object"
        options == IF shift1 THEN rule0 ELSE IF shift2 THEN extend0
                   ELSE options0
        rule1 == IF shift1 THEN Undef ELSE rule0
        extend == IF shift1 \/ shift2 THEN Undef ELSE extend0
        rule == IF rule1.kind = "string"
                THEN Str([i \in 1..Len(rule1.pieces)
                            |-> toLowerCase(rule1.pieces[i])])
                ELSE rule1
    IN  IF ~isInteger(id) \/ id.p < 0
        THEN [thrown |-> "TypeError: id", made |-> Undef]
        ELSE IF type.kind # "string"
        THEN [thrown |-> "TypeError: type", made |-> Undef]
        ELSE IF extend.kind \notin {"undefined", "string"}
        THEN [thrown |-> "TypeError: extend", made |-> Undef]
        ELSE IF rule.kind = "string" /\ ~rule_test(rule.pieces)
        THEN [thrown |-> "TypeError: rule", made |-> Undef]
        ELSE [thrown |-> "none",
              made |-> [kind |-> "Field", name |-> name, id |-> id,
                        type |-> type,
                        rule |-> IF rule.kind = "string"
                                    /\ rule.pieces # <<>>
                                    /\ rule.pieces # <<"optional">>
                                 THEN rule ELSE Undef,
                        extend |-> IF extend = Str(<<>>) THEN Undef
                                   ELSE extend,
                        required |-> rule = Str(<<"required">>),
                        optional |-> rule # Str(<<"required">>),
                        repeated |-> rule = Str(<<"repeated">>),
                        options |-> options]]

\* A field's JSON object: its id, type, rule, role, extend and options
\* properties.
FieldJSON(id, type, rule, role) ==
    [id |-> id, type |-> type, rule |-> rule, role |-> role,
     extend |-> Undef, options |-> Undef]

\* Field.fromJSON(name, json)
Field_fromJSON(name, json) ==
    Field(name, json.id, json.type, json.role, json.extend, json.options)

\* The arguments tried.
FieldIdArgs == {Num(0, 1), Num(1, 1), Num(0 - 1, 1), Num(3, 2), Undef}

FieldTypeArgs == {Str(<<"int32">>), Num(1, 1)}

RuleStrings ==
    {<<"required">>, <<"optional">>, <<"repeated">>, <<"REQUIRED">>,
     <<"Optional">>, <<"Repeated">>, <<>>, <<"x">>,
     <<"required", "x">>, <<"x", "required">>,
     <<"x", "optional", "x">>, <<"optional", "x">>,
     <<"x", "repeated">>, <<"repeated", "x">>}

FieldRuleArgs == {Undef, Obj} \cup {Str(r) : r \in RuleStrings}

FieldExtendArgs == {Undef, Obj, Str(<<"A">>)}

FieldJSONArgs ==
    {FieldJSON(id, Str(<<"int32">>), rule, role) :
        id \in {Num(1, 1), Num(0 - 1, 1)},
        rule \in {Undef} \cup {Str(<<r>>) : r \in {"required", "optional",
                                                  "repeated"}},
        role \in {Undef, Str(<<"repeated">>)}}

FieldCall(op, arg, result) ==
    TreeCall(op, Null, arg,
             [objects |-> objects, thrown |-> result.thrown,
              ret |-> result.made])

\* new Field("f", id, type, rule, extend)
FieldNew == \E id \in FieldIdArgs, type \in FieldTypeArgs,
               rule \in FieldRuleArgs, extend \in FieldExtendArgs :
    /\ CanCallTree
    /\ FieldCall("Field", [id |-> id, type |-> type, rule |-> rule,
                           extend |-> extend],
                 Field("f", id, type, rule, extend, Undef))

\* Field.fromJSON("f", json)
FieldFromJSON == \E json \in FieldJSONArgs :
    /\ CanCallTree
    /\ FieldCall("Field.fromJSON", json, Field_fromJSON("f", json))

InitField ==
    /\ WriterIdle
    /\ objects = <<>>
    /\ treeCall = NoCall
    /\ objectsBefore = <<>>

NextField ==
    \/ FieldNew
    \/ FieldFromJSON

SpecField == InitField /\ [][NextField]_vars

\* C21: Field.fromJSON gives the field the rule of the JSON object: repeated
\* for "repeated", required for "required", neither when the rule is absent
\* or "optional".
FromJSONKeepsRule ==
    (Called("Field.fromJSON") /\ treeCall.arg.id = Num(1, 1)) =>
        /\ treeCall.thrown = "none"
        /\ treeCall.ret.repeated = (treeCall.arg.rule = Str(<<"repeated">>))
        /\ treeCall.ret.required = (treeCall.arg.rule = Str(<<"required">>))

\* The strings that are a rule.
IsRule(pieces) == pieces \in {<<"required">>, <<"optional">>, <<"repeated">>}

\* C22: constructing a Field raises a type error for every rule string that,
\* lower-cased, is not exactly "required", "optional" or "repeated", and for
\* a negative or non-integer id and a non-string type; no field made has an
\* invalid rule.
InvalidFieldRaises ==
    Called("Field") =>
        LET a == treeCall.arg
            lowered == [i \in 1..Len(a.rule.pieces)
                          |-> toLowerCase(a.rule.pieces[i])]
        IN  /\ (~isInteger(a.id) \/ a.id.p < 0) => treeCall.thrown # "none"
            /\ a.type.kind # "string" => treeCall.thrown # "none"
            /\ (a.rule.kind = "string" /\ ~IsRule(lowered)) =>
                    treeCall.thrown # "none"
            /\ (treeCall.thrown = "none"
                    /\ treeCall.ret.rule.kind = "string") =>
                    IsRule(treeCall.ret.rule.pieces)

\* ---------------------------------------------------------------------
\* Namespace#add with objects it rejects
\* ---------------------------------------------------------------------

\* The sixth object is an extension field, a field without extend, or an
\* object of a kind no namespace takes.
PlainF == NewField("f", "int32", FALSE, FALSE, None, None)

MethodF == NewObject("Method", "f")

InitAdd == InitTreeWith({ExtensionF, PlainF, MethodF})

\* namespace.add(null)
TreeAddNull == \E n \in Namespaces :
    /\ CanCallTree
    /\ TreeCall("add", n, Null, add(Tree(objects), n, Null))

NextAdd ==
    \/ TreeAdd
    \/ TreeRemove
    \/ TreeAddNull

SpecAdd == InitAdd /\ [][NextAdd]_vars

\* The child the namespace's map held under the name before the last call.
PrevNamed(n, name) ==
    IF \E i \in 1..Len(Entries(objectsBefore, n)) :
            Entries(objectsBefore, n)[i].name = name
    THEN LET i == CHOOSE i \in 1..Len(Entries(objectsBefore, n)) :
                    Entries(objectsBefore, n)[i].name = name
         IN  Entries(objectsBefore, n)[i].id
    ELSE Null

\* The object is none of Enum, Type, Service, Field, Namespace; or a Field
\* without extend; or its name is taken by a child that is not a plain
\* Namespace giving way to a Type.
Rejected(n, o) ==
    \/ o = Null
    \/ objectsBefore[o].kind \notin NestedKinds
    \/ objectsBefore[o].kind = "Field" /\ objectsBefore[o].extend = None
    \/ LET old == PrevNamed(n, objectsBefore[o].name)
       IN  /\ old # Null
           /\ ~(/\ objectsBefore[old].kind = "Namespace"
                /\ objectsBefore[o].kind = "Type")

\* C23: add(object) raises and leaves every nested map and every parent link
\* as it was when the object is of no nested kind, is a Field without
\* extend, or collides with a child that is not an upgradable pair.
RejectedAddChangesNothing ==
    (Called("add") /\ Rejected(treeCall.self, treeCall.arg)) =>
        /\ treeCall.thrown # "none"
        /\ objects = objectsBefore

\* A Namespace named A was refused by a namespace that holds the Type A and
\* another child.
RejectedAddChangesNothingWitness ==
    /\ Called("add")
    /\ treeCall.arg = NsA
    /\ PrevNamed(treeCall.self, "A") = TypeA
    /\ Len(Entries(objects, treeCall.self)) = 2
    /\ treeCall.thrown = "Error: duplicate name"
    /\ objects[NsA].parent = Null

\* ---------------------------------------------------------------------
\* Namespace#define
\* ---------------------------------------------------------------------

\* The name a path segment spells.
SegmentName(segment) == IF segment = <<>> THEN "" ELSE segment[1]

\* Mutant of define_path: an existing segment is made anew as well.
RECURSIVE define_path_always_new(_, _, _, _)
define_path_always_new(T, ptr, path, visible) ==
    IF T.thrown # "none" THEN T
    ELSE IF Len(path) = 0 THEN Return(T, ptr)
    ELSE LET made == Construct(T, NewObject("Namespace",
                                            SegmentName(Head(path))))
             T1 == add_over_duplicate(made, ptr, made.ret)
         IN  IF T1.thrown # "none" THEN T1
             ELSE define_path_always_new(
                    [T1 EXCEPT !.objects[made.ret].visible = visible],
                    made.ret, Tail(path), visible)

\* The loop of define: while (path.length > 0) { part = path.shift(); ... }
RECURSIVE define_path(_, _, _, _)
define_path(T, ptr, path, visible) ==
    IF T.thrown # "none" THEN T
    ELSE IF Len(path) = 0 THEN Return(T, ptr)
    ELSE LET part == Head(path)
             found == NestedNamed(T.objects, Entries(T.objects, ptr), part, 1)
         IN  IF found # Null
             THEN IF ~IsNamespace(T.objects[found])
                  THEN Throw(T, "Error: path conflicts")
                  ELSE define_path(
                         IF visible = "true"
                         THEN [T EXCEPT !.objects[found].visible = "true"]
                         ELSE T,
                         found, Tail(path), visible)
             ELSE LET made == Construct(T, NewObject("Namespace",
                                                     SegmentName(part)))
                      T1 == add(made, ptr, made.ret)
                  IN  IF T1.thrown # "none" THEN T1
                      ELSE define_path(
                             [T1 EXCEPT !.objects[made.ret].visible = visible],
                             made.ret, Tail(path), visible)

\* Namespace#define(path, json, visible) with a string path; visible is
\* "null" when it is not given.
define(T, n, chars, json, visible) ==
    LET T1 == define_path(T, n, split(chars), visible)
    IN  IF T1.thrown # "none" \/ Len(json) = 0 THEN T1
        ELSE LET T2 == addJSON(T1, T1.ret, json)
             IN  IF T2.thrown # "none" THEN T2 ELSE Return(T2, T1.ret)

\* The calls of define made: paths of one and two segments that exist or
\* not, a path that runs into the enum, the empty string, a call that makes
\* the namespaces visible and one that seeds the last namespace from JSON.
DefineArg(path, json, visible) ==
    [path |-> path, json |-> json, visible |-> visible]

DefineArgs ==
    {DefineArg(<<"A">>, <<>>, "null"),
     DefineArg(<<"A", ".", "B">>, <<>>, "null"),
     DefineArg(<<"X", ".", "Y">>, <<>>, "null"),
     DefineArg(<<"E">>, <<>>, "null"),
     DefineArg(<<>>, <<>>, "null"),
     DefineArg(<<"A", ".", "B">>, <<>>, "true"),
     DefineArg(<<"X">>, <<JsonEntry("Z", Body({"values"}))>>, "null")}

\* The receivers of the calls: the root and the namespace A.
DefineReceivers == {RootId, NsA}

\* namespace.define(path, json, visible)
TreeDefine == \E n \in DefineReceivers, arg \in DefineArgs :
    /\ CanCallTree
    /\ TreeCall("define", n, arg,
                define(Tree(objects), n, arg.path, arg.json, arg.visible))

\* namespace.add(object) of the namespaces A and B, the type A and the enum E.
DefineAdd == \E n \in DefineReceivers, o \in {NsA, TypeA, NsB, EnumE} :
    /\ CanCallTree
    /\ objects[o].parent = Null
    /\ ~IsAncestorOrSelf(objects, o, n)
    /\ TreeCall("add", n, o, add(Tree(objects), n, o))

\* namespace.remove(object) of a member, made by define or not.
DefineRemove == \E n \in DefineReceivers, o \in Ids \ {RootId} :
    /\ CanCallTree
    /\ objects[o].parent = n
    /\ TreeCall("remove", n, o, remove(Tree(objects), n, o))

NextDefine ==
    \/ DefineAdd
    \/ DefineRemove
    \/ TreeDefine

SpecDefine == InitTree /\ [][NextDefine]_vars

\* The child a namespace's map holds under a segment, Null when none.
ChildIn(objs, m, segment) ==
    LET hits == {i \in 1..Len(Entries(objs, m)) :
                    NameChars(Entries(objs, m)[i].name) = segment}
    IN  IF hits = {} THEN Null
        ELSE Entries(objs, m)[CHOOSE i \in hits : TRUE].id

\* Following the segments downward from m as far as they exist: the
\* namespace reached, the segments left, and whether the next segment names
\* an object that is not a namespace.
RECURSIVE Walk(_, _, _)
Walk(objs, m, segments) ==
    IF Len(segments) = 0
    THEN [at |-> m, rest |-> <<>>, conflict |-> FALSE]
    ELSE LET child == ChildIn(objs, m, Head(segments))
         IN  IF child = Null
             THEN [at |-> m, rest |-> segments, conflict |-> FALSE]
             ELSE IF ~IsNamespace(objs[child])
             THEN [at |-> m, rest |-> segments, conflict |-> TRUE]
             ELSE Walk(objs, child, Tail(segments))

\* The ownership part of an object: its kind, name, parent and nested map.
Shape(o) ==
    [kind |-> o.kind, name |-> o.name, parent |-> o.parent,
     nested |-> o.nested]

ParentIffHeld ==
    \A x \in Ids, n \in Ids :
        (objects[x].parent = n)
            <=> (ChildIn(objects, n, NameChars(objects[x].name)) = x)

\* C26: in every state reached by add and remove calls a namespace's nested
\* map is absent or holds at least one entry.
NestedAbsentOrNonEmpty ==
    \A n \in Namespaces :
        objects[n].nested = None \/ Len(objects[n].nested[1]) >= 1

\* C27: whenever a call of Field.encode raises, the writer's bufs, buf, pos
\* and len and the depth of its fork stack are as before the call.
EncodeFailsClean ==
    (LastIs("encode") /\ err) =>
        /\ bufs = prev.bufs
        /\ buf = prev.buf
        /\ pos = prev.pos
        /\ len = prev.len
        /\ Len(stack) = Len(prev.stack)

\* ---------------------------------------------------------------------
\* One field over several calls: options, Field#packed and the encoder
\* ---------------------------------------------------------------------

\* The field with what it remembers: field.packedOption is the "packed"
\* option, cache is _packed ("null", "true" or "false") and encoder is the
\* function its encode property holds.
NoEncoder ==
    [branch |-> "none", id |-> 0, type |-> "", wireType |-> 0,
     bound |-> "null"]

Installed(f) ==
    [field |-> f, cache |-> "null",
     encoder |-> [kind |-> "encode_setup", gen |-> NoEncoder]]

\* ReflectionObject#getOption("packed") !== false
optionNotFalse(F) == F.field.packedOption # "false"

\* Field#packed: the remembered value, computed when none is remembered.
packed_get(F) ==
    IF F.cache = "null"
    THEN [F EXCEPT !.cache = IF optionNotFalse(F) THEN "true" ELSE "false"]
    ELSE F

\* The field as the encoders read it: what this.packed returns stands for
\* the option.
AsRead(F) ==
    [F.field EXCEPT !.packedOption =
        IF packed_get(F).cache = "true" THEN "true" ELSE "false"]

\* ReflectionObject#setOption(name, value, ifNotSet) for the packed option.
base_setOption(F, name, value, ifNotSet) ==
    IF name = "packed" /\ (~ifNotSet \/ F.field.packedOption = "unset")
    THEN [F EXCEPT !.field.packedOption = value]
    ELSE F

\* Mutant of setOption: the remembered value of packed is kept.
setOption_keeps_cache(F, name, value, ifNotSet) ==
    base_setOption(F, name, value, ifNotSet)

\* Field#setOption
setOption(F, name, value, ifNotSet) ==
    base_setOption(IF name = "packed" THEN [F EXCEPT !.cache = "null"] ELSE F,
                   name, value, ifNotSet)

\* field.encode(value, writer): encode_setup at the first call, which
\* replaces itself by the generated encoder or by encode_internal, and the
\* function it left at the later ones. Both branches read this.packed only
\* for a repeated field.
encode_read(F) ==
    IF F.field.repeated /\ (F.encoder.kind # "generated")
    THEN packed_get(F) ELSE F

\* The first call's replacement of this.encode, made after the branch of
\* encode_setup has read the field.
encode_install(F, supported) ==
    IF F.encoder.kind # "encode_setup" THEN F
    ELSE IF supported
    THEN [F EXCEPT !.encoder = [kind |-> "generated",
                                gen |-> encode_generate(AsRead(F))]]
    ELSE [F EXCEPT !.encoder = [kind |-> "encode_internal",
                                gen |-> NoEncoder]]

\* The call of the function this.encode now holds.
encode_run(F, value, w) ==
    [field |-> F,
     writer |-> [(IF F.encoder.kind = "generated"
                  THEN encode_generated(F.encoder.gen, value, w)
                  ELSE encode_internal(AsRead(F), value, w))
                     EXCEPT !.ret = None]]

encode_field(F, value, w, supported) ==
    encode_run(encode_install(encode_read(F), supported), value, w)

\* The fields followed: repeated packable fields with the option unset, true
\* and false, a repeated enum, a repeated message and a singular scalar.
PackedFields ==
    {FieldOf(3, "int32", TRUE, option, "null") :
        option \in {"unset", "true", "false"}}
    \cup {FieldOf(3, "Color", TRUE, "unset", "Enum"),
          FieldOf(3, "Msg", TRUE, "unset", "Type"),
          FieldOf(3, "uint32", FALSE, "unset", "null")}

PackedValues(f) == IF f.repeated THEN {<<U32(1), U32(150)>>} ELSE {U32(150)}

InitPacked ==
    /\ bufs = <<>>
    /\ buf = None
    /\ pos = 0
    /\ len = 0
    /\ stack = <<>>
    /\ emptyArray = None
    /\ BUFFER_SIZE \in ChunkSizes
    /\ codegen \in BOOLEAN
    /\ ret = None
    /\ err = FALSE
    /\ log = <<>>
    /\ snaps = <<>>
    /\ prev = NewMachine(0)
    /\ \E f \in PackedFields :
        /\ objects = <<Installed(f)>>
        /\ treeCall = NoCall
        /\ objectsBefore = <<Installed(f)>>

\* field.setOption(name, value, ifNotSet)
PackedSetOption ==
    \E name \in {"packed", "deprecated"}, value \in {"true", "false"},
       ifNotSet \in BOOLEAN :
        /\ CanCallTree
        /\ TreeCall("setOption", 1,
                    [name |-> name, value |-> value, ifNotSet |-> ifNotSet],
                    Return(Tree(<<setOption(objects[1], name, value,
                                            ifNotSet)>>), 1))

\* A read of field.packed; the value read is "true" or "false".
PackedRead ==
    /\ CanCallTree
    /\ TreeCall("packed", 1, None,
                Return(Tree(<<packed_get(objects[1])>>),
                       packed_get(objects[1]).cache))

\* field.encode(value, writer)
PackedEncoded(value, done) ==
    /\ CanEncode
    /\ Load(done.writer)
    /\ log' = Append(log, [kind |-> "encode",
                           arg |-> [field |-> objects[1].field,
                                    value |-> value]])
    /\ snaps' = snaps
    /\ prev' = Before
    /\ codegen' = codegen
    /\ objects' = <<done.field>>
    /\ objectsBefore' = objects
    /\ treeCall' = [treeCall EXCEPT !.op = "encode", !.self = 1,
                                    !.arg = None, !.ret = 1,
                                    !.thrown = "none"]

PackedEncode == \E value \in PackedValues(objects[1].field) :
    PackedEncoded(value, encode_field(objects[1], value, Before, codegen))

NextPacked ==
    \/ PackedSetOption
    \/ PackedRead
    \/ PackedEncode

SpecPacked == InitPacked /\ [][NextPacked]_vars

\* C28: at every call of encode the encoder the field holds leaves the
\* writer as encode_internal does for the field's state at the call.
GeneratedEncoderFollowsField ==
    Called("encode") =>
        [Machine EXCEPT !.ret = None]
            = [encode_internal(objectsBefore[1].field, LastValue, prev)
                  EXCEPT !.ret = None]

\* C29: a read of field.packed gives true exactly when the field's "packed"
\* option is not false, whatever setOption calls, reads and encodes came
\* before.
PackedReadIsCurrent ==
    Called("packed") =>
        treeCall.ret = IF objects[1].field.packedOption # "false"
                       THEN "true" ELSE "false"

\* The field was encoded while its option was unset, which remembered true;
\* the option was then set to false and the read gave false.
PackedReadIsCurrentWitness ==
    /\ Called("packed")
    /\ treeCall.ret = "false"
    /\ LastIs("encode")
    /\ LastField.repeated
    /\ LastField.packedOption = "unset"
    /\ objectsBefore[1].cache = "null"

====
